---- MODULE Spec2Model ----
(***************************************************************************)
(* Stock-Portfolio-Analysis: the conversation loop of app/web_app.py (the  *)
(* Flask handlers /chat, /set_portfolio, /reset) and of app/main.py (the   *)
(* terminal loop chat_with_agent), with the tool handlers of               *)
(* src/tools/stock_tools.py reduced to what the loop sees of them: a       *)
(* result that is appended, or an exception that ends the turn.            *)
(*                                                                         *)
(* Granularity.  The Flask handlers run in threads over the module-level   *)
(* dictionaries conversations and portfolios, with no lock, and a thread   *)
(* may be switched out at every call a handler makes.  A step of a handler *)
(* is what it does to the two dictionaries between two calls; the client's *)
(* cookie is read when a request arrives and written when its response is  *)
(* there.  The model call and a tool's invoke() are calls that block.  The *)
(* terminal program is one thread with local variables, and its steps are  *)
(* the code between two blocking calls.                                    *)
(*                                                                         *)
(* Aliasing.  tool_call["args"] is the dictionary held by the AIMessage    *)
(* that was appended to the history, so the portfolio written into it is   *)
(* written into the history as well.                                       *)
(***************************************************************************)
EXTENDS Integers, Sequences, FiniteSets, TLC

VARIABLES
    program,        \* which entry point runs: "web" (web_app.py) or "cli" (main.py)
    llm_with_tools, \* web_app.py: the agent create_agent() gave, or "None"
    conversations,  \* web_app.py: conv_id -> list of messages
    portfolios,     \* web_app.py: conv_id -> portfolio
    session,        \* the client's cookie: client -> conv_id, when it has one
    requests,       \* slot -> the locals of the request it holds, or held last
    clock,          \* operations started so far; numbers turns and messages
    uuid,           \* conversation ids handed out by uuid.uuid4()
    owner,          \* conv_id -> the client it was created for
    cli,            \* main.py: the locals of chat_with_agent
    analytics       \* stock_tools.py: a call of one function, and what it returned

vars ==
    <<program, llm_with_tools, conversations, portfolios, session, requests, clock, uuid, owner, cli,
      analytics>>

webvars == <<conversations, portfolios, session, requests, uuid, owner>>

----------------------------------------------------------------------------
(* Bounds and input sets *)

MaxOps == 2

\* Operations started in the runs that look at the threads of one session:
\* one to get the cookie, and two requests that carry it.
MaxRequests == 3

\* Operations started in the runs with two clients: one for the state of the
\* one client, and two of the other, the second of which may be its /reset.
MaxSessionOps == 3

\* The number of times one function of stock_tools.py is called again.
MaxRepeats == 3

Clients == {"alice", "bob"}

\* The requests the server may be handling at one time; a request holds its
\* slot until it responds.
Slots == {"r1", "r2"}

\* A portfolio is a dictionary ticker -> shares, here its set of items.
NoPortfolio == {}

UserPortfolios == { {<<"AAPL", 10>>, <<"MSFT", 5>>} }

SuppliedPortfolio == {<<"NVDA", 2>>}

ExamplePortfolio == {<<"VOO", 10>>, <<"AAPL", 20>>, <<"QQQ", 10>>}

CliExamples == { {<<"VOO", 10>>, <<"BND", 15>>, <<"GLD", 5>>},
                 {<<"AAPL", 10>>, <<"MSFT", 8>>, <<"GOOGL", 5>>, <<"NVDA", 6>>},
                 {<<"VOO", 10>>, <<"QQQ", 8>>, <<"VNQ", 5>>, <<"BND", 7>>} }

TickersOf(p) == {item[1] : item \in p}

----------------------------------------------------------------------------
(* The tool registry and the portfolio injection *)

tools_map == {"get_stock_price", "get_multiple_stock_prices", "get_stock_volatility",
              "get_stock_beta", "get_portfolio_value",
              "get_portfolio_diversification", "rebalance_equal_weight"}

PortfolioTools == {"get_portfolio_value", "get_portfolio_diversification",
                   "rebalance_equal_weight"}

NoArgs == [ticker |-> "", has_portfolio |-> FALSE, portfolio |-> NoPortfolio]

\* if "portfolio" not in tool_args or not tool_args["portfolio"]
NeedsInjection(call) ==
    /\ call.name \in PortfolioTools
    /\ (~call.args.has_portfolio \/ call.args.portfolio = NoPortfolio)

InjectedValue(stored) == IF stored # NoPortfolio THEN stored ELSE ExamplePortfolio

\* A loop that puts the stored portfolio in every request for a portfolio
\* tool, whatever the request holds.
InjectPortfolio_overwrite(call, stored) ==
    IF call.name \in PortfolioTools
    THEN [call EXCEPT !.args.has_portfolio = TRUE,
                      !.args.portfolio = InjectedValue(stored)]
    ELSE call

InjectPortfolio(call, stored) ==
    IF NeedsInjection(call)
    THEN [call EXCEPT !.args.has_portfolio = TRUE,
                      !.args.portfolio = InjectedValue(stored)]
    ELSE call

----------------------------------------------------------------------------
(* The tool handlers of stock_tools.py, as the loop sees them.  The market *)
(* data of one invocation gives each ticker one outcome.  For the handlers *)
(* that read yf.Ticker(t).info it is "price" (a price is found),           *)
(* "noprice" (info holds no price) or "exc" (yfinance raises); for those   *)
(* that read the history of a year it is "closes" (two closes or more),    *)
(* "one" (one close, so no return), "empty" (no close) or "exc"            *)
(* (history() raises).                                                     *)

QuoteOutcomes == {"price", "noprice", "exc"}

HistoryOutcomes == {"closes", "one", "empty", "exc"}

Returned(text) == [raised |-> FALSE, text |-> text]

Raised == [raised |-> TRUE, text |-> "exception"]

\* get_stock_price: everything is inside try/except; success only with a price.
get_stock_price(ticker, m) == Returned(IF m[ticker] = "price" THEN "success" ELSE "error")

\* get_multiple_stock_prices: a dictionary of get_stock_price results.
get_multiple_stock_prices(ticker, m) == Returned("results")

\* get_stock_volatility: everything is inside try/except; an empty history
\* is a ValueError, and a history of one close gives success with a
\* volatility that is not a number.
get_stock_volatility(ticker, m) ==
    Returned(IF m[ticker] \in {"closes", "one"} THEN "success" ELSE "error")

\* get_stock_beta: everything is inside try/except, the history of SPY too.
\* The two series of returns are cut to the length of the shorter one, but
\* series[-0:] is the whole series: np.cov raises when one of the two has no
\* return and the other has, and gives a beta that is not a number, with
\* success, when neither has.
get_stock_beta(ticker, m) ==
    LET no_returns(t) == m[t] \in {"one", "empty"}
    IN  Returned(IF m[ticker] = "exc" \/ m["SPY"] = "exc" THEN "error"
                 ELSE IF no_returns(ticker) # no_returns("SPY") THEN "error"
                 ELSE "success")

\* get_portfolio_value: failed quotes are kept in the breakdown; success is True.
get_portfolio_value(portfolio, m) == Returned("success")

\* get_portfolio_diversification: yf.Ticker(t).info is read outside any try;
\* tickers without a price are skipped; no price at all is an error result.
get_portfolio_diversification(portfolio, m) ==
    IF \E t \in TickersOf(portfolio) : m[t] = "exc" THEN Raised
    ELSE IF \A t \in TickersOf(portfolio) : m[t] # "price" THEN Returned("error")
    ELSE Returned("success")

\* rebalance_equal_weight: reads breakdown[ticker]["value"], which a failed
\* quote's entry does not have (KeyError).
rebalance_equal_weight(portfolio, m) ==
    IF portfolio = NoPortfolio THEN Returned("error")
    ELSE IF \E t \in TickersOf(portfolio) : m[t] # "price" THEN Raised
    ELSE Returned("success")

\* tools_map[tool_name].invoke(tool_args)
InvokeTool(call, m) ==
    CASE call.name = "get_stock_price" -> get_stock_price(call.args.ticker, m)
      [] call.name = "get_multiple_stock_prices" -> get_multiple_stock_prices(call.args.ticker, m)
      [] call.name = "get_stock_volatility" -> get_stock_volatility(call.args.ticker, m)
      [] call.name = "get_stock_beta" -> get_stock_beta(call.args.ticker, m)
      [] call.name = "get_portfolio_value" -> get_portfolio_value(call.args.portfolio, m)
      [] call.name = "get_portfolio_diversification" ->
             get_portfolio_diversification(call.args.portfolio, m)
      [] call.name = "rebalance_equal_weight" -> rebalance_equal_weight(call.args.portfolio, m)

\* The tickers an invocation asks yfinance for: get_stock_beta asks for SPY
\* as well.
MarketTickers(call) ==
    IF call.name \in PortfolioTools THEN TickersOf(call.args.portfolio)
    ELSE IF call.name = "get_stock_beta" THEN {call.args.ticker, "SPY"}
    ELSE {call.args.ticker}

Markets(call) ==
    [MarketTickers(call) ->
        IF call.name \in {"get_stock_volatility", "get_stock_beta"}
        THEN HistoryOutcomes ELSE QuoteOutcomes]

----------------------------------------------------------------------------
(* Messages.  turn is the number of the operation that appended the        *)
(* message; it stands for the text of a user message.                      *)

NoCallId == <<>>

HumanMessage(t, text, data) ==
    [role |-> "user", turn |-> t, text |-> text, data |-> data,
     tool_calls |-> <<>>, tool_call_id |-> NoCallId]

AIMessage(t, calls) ==
    [role |-> "assistant", turn |-> t, text |-> "reply", data |-> NoPortfolio,
     tool_calls |-> calls, tool_call_id |-> NoCallId]

ToolMessage(t, text, id) ==
    [role |-> "tool", turn |-> t, text |-> text, data |-> NoPortfolio,
     tool_calls |-> <<>>, tool_call_id |-> id]

\* The model's tool-call requests of one response: names and arguments are the
\* model's, ids are unique tokens (turn, response, position).
ToolCall(name, args, id) == [name |-> name, args |-> args, id |-> id]

TickerArgs == [NoArgs EXCEPT !.ticker = "AAPL"]

EmptyPortfolioArgs == [NoArgs EXCEPT !.has_portfolio = TRUE]

SuppliedArgs == [NoArgs EXCEPT !.has_portfolio = TRUE, !.portfolio = SuppliedPortfolio]

\* What the model asks for in one response: each portfolio tool, without a
\* portfolio, with an empty one and with its own; two registered tools, the
\* second one needing the stored portfolio; a name that is not in tools_map
\* before a registered one; the two tools that read a history.
ShapeLists ==
    { << [name |-> "get_portfolio_value", args |-> NoArgs] >>,
      << [name |-> "get_portfolio_value", args |-> SuppliedArgs] >>,
      << [name |-> "rebalance_equal_weight", args |-> EmptyPortfolioArgs] >>,
      << [name |-> "get_portfolio_diversification", args |-> NoArgs] >>,
      << [name |-> "get_stock_price", args |-> TickerArgs],
         [name |-> "get_portfolio_value", args |-> NoArgs] >>,
      << [name |-> "get_weather", args |-> NoArgs],
         [name |-> "get_stock_price", args |-> TickerArgs] >>,
      << [name |-> "get_stock_volatility", args |-> TickerArgs],
         [name |-> "get_stock_beta", args |-> TickerArgs] >> }

\* response.tool_calls: the requests of response k of turn t, with their ids
WithIds(shapes, t, k) ==
    [i \in 1..Len(shapes) |-> ToolCall(shapes[i].name, shapes[i].args, <<t, k, i>>)]

\* A smaller model: a ticker tool, then a portfolio tool without a portfolio.
FewLists ==
    { << [name |-> "get_stock_price", args |-> TickerArgs],
         [name |-> "get_portfolio_value", args |-> NoArgs] >> }

----------------------------------------------------------------------------
(* for tool_call in response.tool_calls: the part of the loop that runs    *)
(* without blocking.  From request i on, requests whose name is not in     *)
(* tools_map are passed over; the loop stops at the first registered one,  *)
(* whose handler is then invoked, or ends.                                 *)

NextDispatch(calls, i) ==
    IF \E j \in i..Len(calls) : calls[j].name \in tools_map
    THEN CHOOSE j \in i..Len(calls) :
            /\ calls[j].name \in tools_map
            /\ \A k \in i..(j - 1) : calls[k].name \notin tools_map
    ELSE Len(calls) + 1

\* tool_args["portfolio"] = ... for the requests i..j the loop has reached
InjectRange(calls, i, j, stored) ==
    [k \in 1..Len(calls) |->
        IF k >= i /\ k <= j THEN InjectPortfolio(calls[k], stored) ELSE calls[k]]

\* The history after the arguments of a response were written to: the
\* AIMessage holding these requests, if the list still holds it.
Aliased(history, calls) ==
    [n \in 1..Len(history) |->
        IF /\ history[n].role = "assistant"
           /\ history[n].tool_calls # <<>>
           /\ history[n].tool_calls[1].id = calls[1].id
        THEN [history[n] EXCEPT !.tool_calls = calls]
        ELSE history[n]]

\* Where the loop stands after running on from request i without blocking.
LoopFrom(calls, i, stored) ==
    LET j == NextDispatch(calls, i)
        reached == IF j <= Len(calls) THEN j ELSE Len(calls)
    IN  [calls |-> InjectRange(calls, i, reached, stored),
         idx |-> j,
         pc |-> IF j <= Len(calls) THEN "tool" ELSE "llm2"]

----------------------------------------------------------------------------
(* Calls of the functions of stock_tools.py on their own *)

\* No function has been called.
NoCall == [fn |-> "none", done |-> FALSE]

\* What a call of a function ends with: the dictionary it returns, or the
\* exception that leaves it.
Returns(d) == [raised |-> FALSE, value |-> d]

Raises(e) == [raised |-> TRUE, exception |-> e]

\* What yfinance has for one ticker.  kind is a member of QuoteOutcomes; raw
\* is info["currentPrice"] in thousandths of a dollar, sector is
\* info["sector"].  Money is in cents from where the code rounds to 2 places.
Quote(kind, raw, sector) == [kind |-> kind, raw |-> raw, sector |-> sector]

QuoteChoices ==
    { Quote("price", 150000, "Technology"),
      Quote("price", 150125, "Technology"),
      Quote("price", 99996, "Financial Services"),
      Quote("noprice", 0, "Unknown"),
      Quote("exc", 0, "Unknown") }

AnalyticsPortfolios ==
    { NoPortfolio,
      {<<"AAPL", 10>>},
      {<<"AAPL", 10>>, <<"MSFT", 5>>},
      {<<"AAPL", 10>>, <<"MSFT", 5>>, <<"VOO", 3>>} }

\* The market data get_portfolio_diversification is called with: values that
\* are multiples of $375, so that the squares of the weights stay small.
SectorQuoteChoices ==
    { Quote("price", 150000, "Technology"),
      Quote("price", 75000, "Technology"),
      Quote("price", 75000, "Financial Services"),
      Quote("noprice", 0, "Unknown"),
      Quote("exc", 0, "Unknown") }

QuotesFor(portfolio, choices) == [TickersOf(portfolio) -> choices]

SharesOf(portfolio, ticker) == CHOOSE n \in {h[2] : h \in portfolio} : <<ticker, n>> \in portfolio

RECURSIVE Sum(_, _)
Sum(f, S) ==
    IF S = {} THEN 0
    ELSE LET x == CHOOSE y \in S : TRUE IN f[x] + Sum(f, S \ {x})

\* round(num / den) to an integer, a tie going to the even neighbour, as
\* Python's round does on a value the float holds exactly (den > 0).  The
\* inputs leave out the ties in decimal that a binary float is not on.
round(num, den) ==
    LET q == num \div den
        r == num % den
    IN  IF 2 * r < den THEN q
        ELSE IF 2 * r > den THEN q + 1
        ELSE IF q % 2 = 0 THEN q ELSE q + 1

\* str.upper() of the tickers that are passed in
upper(ticker) ==
    CASE ticker = "aapl" -> "AAPL"
      [] ticker = "msft" -> "MSFT"
      [] OTHER -> ticker

\* get_stock_price as a dictionary: "price" is round(price, 2), in cents.
get_stock_price_dict(ticker, quote) ==
    IF quote.kind = "price"
    THEN [ticker |-> upper(ticker), price |-> round(quote.raw, 10), currency |-> "USD",
          company_name |-> "longName", timestamp |-> "now", success |-> TRUE]
    ELSE [ticker |-> upper(ticker), success |-> FALSE, error |-> "Price fetch failed"]

\* A get_portfolio_value that fails as a whole when one quote fails.
get_portfolio_value_dict_strict(portfolio, quotes) ==
    IF \E t \in TickersOf(portfolio) : quotes[t].kind # "price"
    THEN [success |-> FALSE, error |-> "quote failed"]
    ELSE [portfolio_value |-> 0, breakdown |-> <<>>, success |-> TRUE]

\* get_portfolio_value as a dictionary; quotes gives each ticker its Quote.
get_portfolio_value_dict(portfolio, quotes) ==
    LET tickers == TickersOf(portfolio)
        quote == [t \in tickers |-> get_stock_price_dict(t, quotes[t])]
        value == [t \in tickers |->
                     IF quote[t].success THEN quote[t].price * SharesOf(portfolio, t) ELSE 0]
        details == [t \in tickers |->
                       IF ~quote[t].success THEN quote[t]
                       ELSE [shares |-> SharesOf(portfolio, t),
                             price |-> quote[t].price,
                             value |-> round(value[t], 1)]]
    IN  [portfolio_value |-> round(Sum(value, tickers), 1),
         breakdown |-> details,
         success |-> TRUE]

RECURSIVE GCD(_, _)
GCD(a, b) == IF b = 0 THEN a ELSE GCD(b, a % b)

RECURSIVE GCDOver(_, _)
GCDOver(f, S) ==
    IF S = {} THEN 0
    ELSE LET x == CHOOSE y \in S : TRUE IN GCD(f[x], GCDOver(f, S \ {x}))

\* get_portfolio_diversification: info is read outside any try; a ticker
\* without currentPrice is skipped; value is price * shares of the unrounded
\* price.  A sector's weight is its value / total_value, kept as the pair
\* <<value, total>> with the common divisor of the sectors' values taken
\* out; the score round(1 - sum of squared weights, 4) is in ten-thousandths.
get_portfolio_diversification_dict(portfolio, quotes) ==
    LET tickers == TickersOf(portfolio)
        priced == {t \in tickers : quotes[t].kind = "price"}
        value == [t \in priced |-> quotes[t].raw * SharesOf(portfolio, t)]
        total_value == Sum(value, priced)
        names == {quotes[t].sector : t \in priced}
        sectors == [sec \in names |-> Sum(value, {t \in priced : quotes[t].sector = sec})]
        unit == GCDOver(sectors, names)
        weights == [sec \in names |-> <<sectors[sec] \div unit, total_value \div unit>>]
        squares == [sec \in names |-> weights[sec][1] * weights[sec][1]]
        whole == (total_value \div unit) * (total_value \div unit)
        details == [t \in priced |->
                       [shares |-> SharesOf(portfolio, t),
                        sector |-> quotes[t].sector,
                        value |-> round(value[t], 10)]]
    IN  IF \E t \in tickers : quotes[t].kind = "exc" THEN Raises("Exception")
        ELSE IF total_value = 0
        THEN Returns([success |-> FALSE, error |-> "No valid stock prices found."])
        ELSE Returns([success |-> TRUE,
                      diversification_score |->
                          round(10000 * (whole - Sum(squares, names)), whole),
                      sector_weights |-> weights,
                      details |-> details])

\* A rebalance_equal_weight whose target is total / (n + 1).
rebalance_equal_weight_dict_short_target(portfolio, quotes) ==
    LET tickers == TickersOf(portfolio)
        value_data == get_portfolio_value_dict(portfolio, quotes)
        total_value == value_data.portfolio_value
        n == Cardinality(tickers) + 1
    IN  IF n = 1 THEN Returns([success |-> FALSE, error |-> "Portfolio empty"])
        ELSE IF \E t \in tickers : "value" \notin DOMAIN value_data.breakdown[t]
        THEN Raises("KeyError")
        ELSE Returns([success |-> TRUE,
                      strategy |-> "equal_weight",
                      target_value_each |-> round(total_value, n),
                      adjustments |->
                          [t \in tickers |->
                              round(total_value - n * value_data.breakdown[t].value, n)]])

\* A rebalance_equal_weight without the test of n: total_value / 0 raises.
rebalance_equal_weight_dict_unguarded(portfolio, quotes) ==
    LET tickers == TickersOf(portfolio)
        value_data == get_portfolio_value_dict(portfolio, quotes)
        total_value == value_data.portfolio_value
        n == Cardinality(tickers)
    IN  IF n = 0 THEN Raises("ZeroDivisionError")
        ELSE IF \E t \in tickers : "value" \notin DOMAIN value_data.breakdown[t]
        THEN Raises("KeyError")
        ELSE Returns([success |-> TRUE,
                      strategy |-> "equal_weight",
                      target_value_each |-> round(total_value, n),
                      adjustments |->
                          [t \in tickers |->
                              round(total_value - n * value_data.breakdown[t].value, n)]])

\* rebalance_equal_weight: the empty portfolio is an error result; the value
\* of each ticker is read from the breakdown, where a failed quote has none
\* (KeyError); target = total / n, adjustment = target - current.
rebalance_equal_weight_dict(portfolio, quotes) ==
    LET tickers == TickersOf(portfolio)
        value_data == get_portfolio_value_dict(portfolio, quotes)
        total_value == value_data.portfolio_value
        n == Cardinality(tickers)
    IN  IF n = 0 THEN Returns([success |-> FALSE, error |-> "Portfolio empty"])
        ELSE IF \E t \in tickers : "value" \notin DOMAIN value_data.breakdown[t]
        THEN Raises("KeyError")
        ELSE Returns([success |-> TRUE,
                      strategy |-> "equal_weight",
                      target_value_each |-> round(total_value, n),
                      adjustments |->
                          [t \in tickers |->
                              round(total_value - n * value_data.breakdown[t].value, n)]])

\* The calls of a function of a portfolio, each with quotes for its tickers.
PortfolioCalls(fn, choices) ==
    { [fn |-> fn, done |-> FALSE, portfolio |-> p, quotes |-> q] :
          <<p, q>> \in UNION { {p} \X QuotesFor(p, choices) : p \in AnalyticsPortfolios } }

\* The calls of get_portfolio_value that are looked at.
PortfolioValueCalls == PortfolioCalls("get_portfolio_value", QuoteChoices)

Call_get_portfolio_diversification ==
    /\ analytics.fn = "get_portfolio_diversification"
    /\ ~analytics.done
    /\ analytics' =
           [fn |-> analytics.fn, done |-> TRUE, portfolio |-> analytics.portfolio,
            quotes |-> analytics.quotes,
            result |-> get_portfolio_diversification_dict(analytics.portfolio,
                                                          analytics.quotes)]
    /\ UNCHANGED <<program, llm_with_tools, webvars, clock, cli>>

Call_rebalance_equal_weight ==
    /\ analytics.fn = "rebalance_equal_weight"
    /\ ~analytics.done
    /\ analytics' =
           [fn |-> analytics.fn, done |-> TRUE, portfolio |-> analytics.portfolio,
            quotes |-> analytics.quotes,
            result |-> rebalance_equal_weight_dict(analytics.portfolio, analytics.quotes)]
    /\ UNCHANGED <<program, llm_with_tools, webvars, clock, cli>>

Call_get_portfolio_value ==
    /\ analytics.fn = "get_portfolio_value"
    /\ ~analytics.done
    /\ analytics' =
           [fn |-> analytics.fn, done |-> TRUE, portfolio |-> analytics.portfolio,
            quotes |-> analytics.quotes,
            result |-> Returns(get_portfolio_value_dict(analytics.portfolio, analytics.quotes))]
    /\ UNCHANGED <<program, llm_with_tools, webvars, clock, cli>>

----------------------------------------------------------------------------
(* Text.  A str is the sequence of its characters, so that lower(), strip() *)
(* and "in" are what they do to the characters.                            *)

ascii_uppercase ==
    <<"A", "B", "C", "D", "E", "F", "G", "H", "I", "J", "K", "L", "M", "N",
    "O", "P", "Q", "R", "S", "T", "U", "V", "W", "X", "Y", "Z">>

ascii_lowercase ==
    <<"a", "b", "c", "d", "e", "f", "g", "h", "i", "j", "k", "l", "m", "n",
    "o", "p", "q", "r", "s", "t", "u", "v", "w", "x", "y", "z">>

whitespace == {" ", "\t", "\n"}

lower_char(c) ==
    IF \E i \in 1..Len(ascii_uppercase) : ascii_uppercase[i] = c
    THEN ascii_lowercase[CHOOSE i \in 1..Len(ascii_uppercase) : ascii_uppercase[i] = c]
    ELSE c

\* str.lower()
lower(text) == [i \in 1..Len(text) |-> lower_char(text[i])]

\* str.strip()
strip(text) ==
    LET inked == {i \in 1..Len(text) : text[i] \notin whitespace}
    IN  IF inked = {} THEN <<>>
        ELSE SubSeq(text, CHOOSE i \in inked : \A j \in inked : i <= j,
                          CHOOSE i \in inked : \A j \in inked : j <= i)

\* part in text
Contains(text, part) ==
    \E i \in 0..(Len(text) - Len(part)) : SubSeq(text, i + 1, i + Len(part)) = part

None == <<>>

Just(x) == <<x>>

Text_growth == <<"g", "r", "o", "w", "t", "h">>

Text_income == <<"i", "n", "c", "o", "m", "e">>

Text_value == <<"v", "a", "l", "u", "e">>

Text_stability == <<"s", "t", "a", "b", "i", "l", "i", "t", "y">>

GOAL_SUGGESTIONS ==
    [goal \in {Text_growth, Text_income, Text_value, Text_stability} |->
        CASE goal = Text_growth -> <<"NVDA", "TSLA", "AAPL", "AMD">>
          [] goal = Text_income -> <<"JNJ", "PG", "KO", "O", "VZ">>
          [] goal = Text_value -> <<"BRK-B", "JPM", "CVX", "WMT">>
          [] goal = Text_stability -> <<"VOO", "BND", "XLU">>]

\* The goals the functions are called with: known ones in some spellings,
\* and one that is not in the table.
GoalInputs ==
    { Text_growth, <<"G", "r", "o", "w", "t", "h">>, <<"S", "T", "A", "B", "I", "L", "I", "T", "Y">>,
      <<"r", "e", "t", "i", "r", "e", "m", "e", "n", "t">> }

\* suggest_stocks_by_goal, with the module's dictionary as the call finds
\* it: the list of the result is the list the dictionary holds.
suggest_stocks_by_goal_dict(goal, goal_suggestions) ==
    LET lowered == lower(goal)
    IN  IF lowered \notin DOMAIN goal_suggestions
        THEN [success |-> FALSE,
              error |-> <<"U", "n", "k", "n", "o", "w", "n", " ", "g", "o", "a", "l", " ", "'">> \o lowered \o <<"'">>]
        ELSE [success |-> TRUE, goal |-> lowered, suggestions |-> goal_suggestions[lowered]]

\* recommend_portfolio_adjustments: a failed suggestion is returned as it is;
\* of the diversification only .get("diversification_score") is used.
recommend_portfolio_adjustments_dict(portfolio, goal, quotes, goal_suggestions) ==
    LET suggestion == suggest_stocks_by_goal_dict(goal, goal_suggestions)
        diversification == get_portfolio_diversification_dict(portfolio, quotes)
    IN  IF ~suggestion.success THEN Returns(suggestion)
        ELSE IF diversification.raised THEN diversification
        ELSE Returns([success |-> TRUE,
                      goal |-> goal,
                      suggestions |-> suggestion.suggestions,
                      diversification_score |->
                          IF "diversification_score" \in DOMAIN diversification.value
                          THEN Just(diversification.value.diversification_score)
                          ELSE None,
                      notes |-> "These stocks align with your goal"])

RecommendCalls ==
    { [fn |-> "recommend_portfolio_adjustments", done |-> FALSE,
       portfolio |-> c.portfolio, quotes |-> c.quotes, goal |-> g] :
          <<c, g>> \in PortfolioCalls("", SectorQuoteChoices) \X GoalInputs }

Call_recommend_portfolio_adjustments ==
    /\ analytics.fn = "recommend_portfolio_adjustments"
    /\ ~analytics.done
    /\ analytics' =
           [fn |-> analytics.fn, done |-> TRUE, portfolio |-> analytics.portfolio,
            quotes |-> analytics.quotes, goal |-> analytics.goal,
            result |-> recommend_portfolio_adjustments_dict(
                           analytics.portfolio, analytics.goal, analytics.quotes,
                           GOAL_SUGGESTIONS)]
    /\ UNCHANGED <<program, llm_with_tools, webvars, clock, cli>>

\* suggest_stocks_by_goal called again and again with one goal, calls of
\* recommend_portfolio_adjustments coming in between.  results holds what
\* each call of suggest_stocks_by_goal returned, in the order of the calls.
\* Calls of suggest_stocks_by_goal one after the other in one process, with
\* calls of recommend_portfolio_adjustments in between: goal_suggestions is
\* the module's dictionary GOAL_SUGGESTIONS, which every call reads and whose
\* lists the results hand out; results are the results as they were returned,
\* and between is the last other call, with the number of results before it.
SuggestCalls ==
    { [fn |-> "suggest_stocks_by_goal", done |-> FALSE, goal |-> g, results |-> <<>>,
       goal_suggestions |-> GOAL_SUGGESTIONS, others |-> 0, between |-> None] :
          g \in GoalInputs }

Call_suggest_stocks_by_goal ==
    /\ analytics.fn = "suggest_stocks_by_goal"
    /\ Len(analytics.results) < MaxRepeats
    /\ analytics' =
           [analytics EXCEPT
                !.done = TRUE,
                !.results = Append(@, suggest_stocks_by_goal_dict(
                                          analytics.goal, analytics.goal_suggestions))]
    /\ UNCHANGED <<program, llm_with_tools, webvars, clock, cli>>

\* list.reverse()
Reversed(list) == [i \in 1..Len(list) |-> list[Len(list) + 1 - i]]

\* A recommend_portfolio_adjustments that turns the list it was handed
\* around, suggestion["suggestions"].reverse(), which is the list of the
\* module's dictionary.
Call_recommend_between_reversing ==
    /\ analytics.fn = "suggest_stocks_by_goal"
    /\ analytics.others < MaxRepeats
    /\ \E c \in RecommendCalls :
           /\ c.portfolio = {}
           /\ LET lowered == lower(c.goal)
                  table == analytics.goal_suggestions
                  after == IF lowered \in DOMAIN table
                           THEN [table EXCEPT ![lowered] = Reversed(@)]
                           ELSE table
              IN  analytics' =
                      [analytics EXCEPT
                           !.others = @ + 1,
                           !.goal_suggestions = after,
                           !.between =
                               Just([after |-> Len(analytics.results),
                                     result |-> recommend_portfolio_adjustments_dict(
                                                    c.portfolio, c.goal, c.quotes, after)])]
    /\ UNCHANGED <<program, llm_with_tools, webvars, clock, cli>>

\* recommend_portfolio_adjustments between two calls of
\* suggest_stocks_by_goal: it reads the dictionary through
\* suggest_stocks_by_goal and writes to none of its lists.
Call_recommend_between ==
    /\ analytics.fn = "suggest_stocks_by_goal"
    /\ analytics.others < MaxRepeats
    /\ \E c \in RecommendCalls :
           /\ c.portfolio = {}
           /\ analytics' =
                  [analytics EXCEPT
                       !.others = @ + 1,
                       !.between =
                           Just([after |-> Len(analytics.results),
                                 result |-> recommend_portfolio_adjustments_dict(
                                                c.portfolio, c.goal, c.quotes,
                                                analytics.goal_suggestions)])]
    /\ UNCHANGED <<program, llm_with_tools, webvars, clock, cli>>

Text_conservative == <<"c", "o", "n", "s", "e", "r", "v", "a", "t", "i", "v", "e">>

Text_moderate == <<"m", "o", "d", "e", "r", "a", "t", "e">>

Text_aggressive == <<"a", "g", "g", "r", "e", "s", "s", "i", "v", "e">>

\* RISK_PROFILES, the table of the first rebalance_by_risk_profile: weights
\* in hundredths.
RISK_PROFILES ==
    [profile \in {Text_conservative, Text_moderate, Text_aggressive} |->
        CASE profile = Text_conservative ->
                 [t \in {"VOO", "BND", "GLD", "AAPL", "QQQ"} |->
                     CASE t = "VOO" -> 50 [] t = "BND" -> 30 [] t = "GLD" -> 10
                       [] t = "AAPL" -> 5 [] t = "QQQ" -> 5]
          [] profile = Text_moderate ->
                 [t \in {"VOO", "QQQ", "AAPL", "BND", "GLD"} |->
                     CASE t = "VOO" -> 40 [] t = "QQQ" -> 25 [] t = "AAPL" -> 20
                       [] t = "BND" -> 10 [] t = "GLD" -> 5]
          [] profile = Text_aggressive ->
                 [t \in {"QQQ", "AAPL", "VOO", "NVDA"} |->
                     CASE t = "QQQ" -> 40 [] t = "AAPL" -> 30 [] t = "VOO" -> 20
                       [] t = "NVDA" -> 10]]

\* profiles, the table inside the second rebalance_by_risk_profile: weights
\* of asset classes in hundredths.
profiles ==
    [risk \in {Text_conservative, Text_moderate, Text_aggressive} |->
        [class \in {"equity", "bonds", "alternatives"} |->
            CASE risk = Text_conservative ->
                     (CASE class = "equity" -> 40 [] class = "bonds" -> 50
                        [] class = "alternatives" -> 10)
              [] risk = Text_moderate ->
                     (CASE class = "equity" -> 60 [] class = "bonds" -> 30
                        [] class = "alternatives" -> 10)
              [] risk = Text_aggressive ->
                     (CASE class = "equity" -> 85 [] class = "bonds" -> 10
                        [] class = "alternatives" -> 5)]]

\* The profiles the function is called with.
RiskInputs ==
    { Text_moderate, <<"M", "O", "D", "E", "R", "A", "T", "E">>,
      <<" ", "C", "o", "n", "s", "e", "r", "v", "a", "t", "i", "v", "e", " ">>,
      Text_aggressive, <<"b", "a", "l", "a", "n", "c", "e", "d">>,
      <<"B", "a", "l", "a", "n", "c", "e", "d">> }

\* A rebalance_by_risk_profile that looks the profile up as it is spelled.
rebalance_by_risk_profile_dict_as_spelled(portfolio, risk_profile) ==
    IF risk_profile \notin DOMAIN profiles
    THEN [success |-> FALSE,
          error |-> <<"U", "n", "k", "n", "o", "w", "n", " ", "r", "i", "s", "k", " ", "p", "r", "o", "f", "i", "l", "e", " ", "'">>
                        \o risk_profile \o <<"'">>]
    ELSE [success |-> TRUE, risk_profile |-> risk_profile,
          target_allocations |-> profiles[risk_profile]]

\* rebalance_by_risk_profile: the second def of this name in the module is
\* the one the name is bound to.  It does not look at the portfolio.
rebalance_by_risk_profile_dict(portfolio, risk_profile) ==
    LET risk == strip(lower(risk_profile))
    IN  IF risk \notin DOMAIN profiles
        THEN [success |-> FALSE,
              error |-> <<"U", "n", "k", "n", "o", "w", "n", " ", "r", "i", "s", "k", " ", "p", "r", "o", "f", "i", "l", "e", " ", "'">>
                            \o risk
                            \o <<"'", ".", " ", "U", "s", "e", " ", "c", "o",
                               "n", "s", "e", "r", "v", "a", "t", "i", "v",
                               "e", ",", " ", "m", "o", "d", "e", "r", "a",
                               "t", "e", ",", " ", "o", "r", " ", "a", "g",
                               "g", "r", "e", "s", "s", "i", "v", "e", ".">>]
        ELSE [success |-> TRUE,
              risk_profile |-> risk,
              target_allocations |-> profiles[risk],
              message |-> "Rebalanced portfolio using this profile."]

RiskProfileCalls ==
    { [fn |-> "rebalance_by_risk_profile", done |-> FALSE,
       portfolio |-> c.portfolio, quotes |-> c.quotes, risk_profile |-> r] :
          <<c, r>> \in PortfolioCalls("", QuoteChoices) \X RiskInputs }

Call_rebalance_by_risk_profile ==
    /\ analytics.fn = "rebalance_by_risk_profile"
    /\ ~analytics.done
    /\ analytics' =
           [fn |-> analytics.fn, done |-> TRUE, portfolio |-> analytics.portfolio,
            quotes |-> analytics.quotes, risk_profile |-> analytics.risk_profile,
            result |-> Returns(rebalance_by_risk_profile_dict(analytics.portfolio,
                                                              analytics.risk_profile))]
    /\ UNCHANGED <<program, llm_with_tools, webvars, clock, cli>>

----------------------------------------------------------------------------
(* Price histories.  A history is what yfinance's history(period="1y")     *)
(* gives: an exception, or the closes, kept as their logarithms in         *)
(* hundredths, so that a log return is a difference.                       *)

History(closes) == [exc |-> FALSE, closes |-> closes]

NoHistory == [exc |-> TRUE, closes |-> <<>>]

\* A float: not a number, or a value in the unit of the field that holds it.
NaN == [nan |-> TRUE]

Finite(x) == [nan |-> FALSE, value |-> x]

\* np.log(hist / hist.shift(1)).dropna()
LogReturns(closes) == [i \in 1..(Len(closes) - 1) |-> closes[i + 1] - closes[i]]

\* series[-n:]
Last(series, n) ==
    IF n = 0 THEN series ELSE SubSeq(series, Len(series) - n + 1, Len(series))

Min(a, b) == IF a <= b THEN a ELSE b

RECURSIVE SumSeq(_)
SumSeq(series) == IF series = <<>> THEN 0 ELSE Head(series) + SumSeq(Tail(series))

\* n * sum(x * y) - sum(x) * sum(y): n * n times the covariance of x and y
Deviations(x, y) ==
    Len(x) * SumSeq([i \in 1..Len(x) |-> x[i] * y[i]]) - SumSeq(x) * SumSeq(y)

\* floor(sqrt(n)) for n >= 0
RECURSIVE isqrt(_)
isqrt(n) ==
    IF n < 2 THEN n
    ELSE LET small == 2 * isqrt(n \div 4)
         IN  IF (small + 1) * (small + 1) > n THEN small ELSE small + 1

\* round(sqrt(num / den)) for num >= 0, den > 0: half of floor(sqrt(4 * num / den)),
\* rounded up
RoundedRoot(num, den) == (isqrt((4 * num) \div den) + 1) \div 2

\* get_stock_volatility: an empty history raises inside the try; std() of
\* fewer than two returns is NaN.  volatility is in ten-thousandths.
get_stock_volatility_dict(ticker, hist) ==
    LET daily_returns == LogReturns(hist.closes)
        n == Len(daily_returns)
    IN  IF hist.exc \/ hist.closes = <<>>
        THEN [ticker |-> upper(ticker), success |-> FALSE, error |-> "No price history"]
        ELSE [ticker |-> upper(ticker),
              volatility |->
                  IF n < 2 THEN NaN
                  ELSE Finite(RoundedRoot(2520000 * Deviations(daily_returns, daily_returns),
                                          n * (n - 1))),
              success |-> TRUE]

\* The last 16 bits of the float np.log(b / a) of the closes exp(a / 100) and
\* exp(b / 100), for the closes of HistoryChoices: a close divided by itself
\* is 1.0 and its logarithm 0.0; the other returns carry a rounding error,
\* and two of them of one size are one float where these bits are the same.
log_bits(a, b) ==
    LET p == <<a, b>>
    IN  IF a = b THEN 0
        ELSE CASE
            p = <<460, 461>> -> 5561
         [] p = <<460, 462>> -> 5359
         [] p = <<460, 463>> -> 7949
         [] p = <<460, 464>> -> 5241
         [] p = <<461, 460>> -> 5600
         [] p = <<461, 462>> -> 5181
         [] p = <<461, 463>> -> 5108
         [] p = <<461, 464>> -> 7701
         [] p = <<462, 460>> -> 5388
         [] p = <<462, 461>> -> 5147
         [] p = <<462, 463>> -> 5181
         [] p = <<462, 464>> -> 5108
         [] p = <<463, 460>> -> 7937
         [] p = <<463, 461>> -> 5127
         [] p = <<463, 462>> -> 5147
         [] p = <<463, 464>> -> 5054
         [] p = <<464, 460>> -> 5248
         [] p = <<464, 461>> -> 7673
         [] p = <<464, 462>> -> 5094
         [] p = <<464, 463>> -> 5083

\* The returns as floats: the size of each in hundredths, and its last bits.
FloatReturns(closes) ==
    [i \in 1..(Len(closes) - 1) |->
        <<closes[i + 1] - closes[i], log_bits(closes[i], closes[i + 1])>>]

\* Every float of the series is the same float: each is the mean, and the
\* deviations from the mean are 0.0.
SameFloats(series) == \A i, j \in 1..Len(series) : series[i] = series[j]

\* A float that is a quotient of rounding errors: a number, of a size and
\* sign that numpy's order of summation decides.
RoundingError == [nan |-> FALSE, rounding |-> TRUE]

\* get_stock_beta: np.cov of series of different lengths raises inside the
\* try; beta = cov / var is a division of numpy floats, with no test of var.
\* It is NaN where there are fewer than two returns, and where var is 0.0,
\* which it is when the benchmark's returns are one float (cov is 0.0 there
\* too).  Returns that are equal only before rounding leave a var above 0:
\* cov is 0.0 over it for a stock whose returns are one float, the quotient
\* is n / (n - 1) for a stock with the benchmark's closes, and rounding
\* error otherwise.  np.cov divides by n - 1, np.var by n.  beta is in
\* thousandths.
get_stock_beta_dict(ticker, stock_hist, spy_hist) ==
    LET min_len == Min(Len(LogReturns(stock_hist.closes)), Len(LogReturns(spy_hist.closes)))
        returns_stock == Last(LogReturns(stock_hist.closes), min_len)
        returns_spy == Last(LogReturns(spy_hist.closes), min_len)
        floats_stock == Last(FloatReturns(stock_hist.closes), min_len)
        floats_spy == Last(FloatReturns(spy_hist.closes), min_len)
        n == Len(returns_spy)
        cov == n * Deviations(returns_stock, returns_spy)
        var == (n - 1) * Deviations(returns_spy, returns_spy)
    IN  IF stock_hist.exc \/ spy_hist.exc \/ Len(returns_stock) # Len(returns_spy)
        THEN [ticker |-> upper(ticker), success |-> FALSE, error |-> "exception"]
        ELSE [ticker |-> upper(ticker),
              beta |->
                  IF n < 2 \/ SameFloats(floats_spy) THEN NaN
                  ELSE IF var # 0 THEN Finite(round(1000 * cov, var))
                  ELSE IF SameFloats(floats_stock) THEN Finite(0)
                  ELSE IF floats_stock = floats_spy THEN Finite(round(1000 * n, n - 1))
                  ELSE RoundingError,
              success |-> TRUE]

\* The histories the functions are called with: none, one close, a constant
\* price, a constant growth, and prices that move.
HistoryChoices ==
    { NoHistory, History(<<>>), History(<<460>>), History(<<460, 461>>),
      History(<<460, 460, 460, 460>>), History(<<460, 461, 462, 463>>),
      History(<<460, 462, 461>>), History(<<460, 463, 461, 464>>) }

VolatilityCalls ==
    { [fn |-> "get_stock_volatility", done |-> FALSE, ticker |-> t, hist |-> h] :
          <<t, h>> \in {"AAPL", "aapl"} \X HistoryChoices }

BetaCalls ==
    { [fn |-> "get_stock_beta", done |-> FALSE, ticker |-> "AAPL",
       stock_hist |-> hs[1], spy_hist |-> hs[2]] :
          hs \in HistoryChoices \X HistoryChoices }

Call_get_stock_volatility ==
    /\ analytics.fn = "get_stock_volatility"
    /\ ~analytics.done
    /\ analytics' =
           [fn |-> analytics.fn, done |-> TRUE, ticker |-> analytics.ticker,
            hist |-> analytics.hist,
            result |-> Returns(get_stock_volatility_dict(analytics.ticker, analytics.hist))]
    /\ UNCHANGED <<program, llm_with_tools, webvars, clock, cli>>

Call_get_stock_beta ==
    /\ analytics.fn = "get_stock_beta"
    /\ ~analytics.done
    /\ analytics' =
           [fn |-> analytics.fn, done |-> TRUE, ticker |-> analytics.ticker,
            stock_hist |-> analytics.stock_hist, spy_hist |-> analytics.spy_hist,
            result |-> Returns(get_stock_beta_dict(analytics.ticker, analytics.stock_hist,
                                                   analytics.spy_hist))]
    /\ UNCHANGED <<program, llm_with_tools, webvars, clock, cli>>

----------------------------------------------------------------------------
(* Dictionaries *)

EmptyDict == [k \in {} |-> {}]

Put(d, k, v) == [x \in DOMAIN d \cup {k} |-> IF x = k THEN v ELSE d[x]]

Del(d, k) == [x \in DOMAIN d \ {k} |-> d[x]]

SetDefault(d, k, v) == IF k \in DOMAIN d THEN d ELSE Put(d, k, v)

----------------------------------------------------------------------------
(* Quotes called on their own *)

\* get_multiple_stock_prices: the dictionary after the first i tickers of the
\* list, quotes[i] being what the i-th lookup meets.
RECURSIVE ResultsAfter(_, _, _)
ResultsAfter(tickers, quotes, i) ==
    IF i = 0 THEN EmptyDict
    ELSE Put(ResultsAfter(tickers, quotes, i - 1), upper(tickers[i]),
             get_stock_price_dict(tickers[i], quotes[i]))

get_multiple_stock_prices_dict(tickers, quotes) == ResultsAfter(tickers, quotes, Len(tickers))

\* The lists get_multiple_stock_prices is called with: empty, one ticker in
\* either case, two spellings of one ticker, two and three tickers.
TickerLists ==
    { <<>>, <<"AAPL">>, <<"aapl">>, <<"aapl", "AAPL">>, <<"AAPL", "msft">>,
      <<"AAPL", "GOOGL", "MSFT">> }

StockPriceCalls ==
    { [fn |-> "get_stock_price", done |-> FALSE, ticker |-> c[1], quote |-> c[2]] :
          c \in {"AAPL", "aapl", "INVALID_TICKER_XYZ123"} \X QuoteChoices }

MultiplePriceCalls ==
    { [fn |-> "get_multiple_stock_prices", done |-> FALSE, tickers |-> c[1], quotes |-> c[2]] :
          c \in UNION { {l} \X [1..Len(l) -> QuoteChoices] : l \in TickerLists } }

Call_get_stock_price ==
    /\ analytics.fn = "get_stock_price"
    /\ ~analytics.done
    /\ analytics' =
           [fn |-> analytics.fn, done |-> TRUE, ticker |-> analytics.ticker,
            quote |-> analytics.quote,
            result |-> Returns(get_stock_price_dict(analytics.ticker, analytics.quote))]
    /\ UNCHANGED <<program, llm_with_tools, webvars, clock, cli>>

Call_get_multiple_stock_prices ==
    /\ analytics.fn = "get_multiple_stock_prices"
    /\ ~analytics.done
    /\ analytics' =
           [fn |-> analytics.fn, done |-> TRUE, tickers |-> analytics.tickers,
            quotes |-> analytics.quotes,
            result |-> Returns(get_multiple_stock_prices_dict(analytics.tickers,
                                                              analytics.quotes))]
    /\ UNCHANGED <<program, llm_with_tools, webvars, clock, cli>>

----------------------------------------------------------------------------
(* web_app.py *)

\* str(uuid.uuid4()): an id no conversation has had
NewConversationId == uuid + 1

\* The locals of a request no thread holds.  kind is the handler, conv_id the
\* id in the session the request came with or was given, new_session whether
\* the handler wrote to the session, posted the portfolio of /set_portfolio.
\* held tells of the list conversations[conv_id] gave the handler for an
\* append it has not made yet: "live" while the dictionary has that list,
\* "orphan" once /reset has deleted it.
NoRequest ==
    [kind |-> "none", client |-> "", conv_id |-> 0, new_session |-> FALSE, turn |-> 0,
     pc |-> "done", calls |-> <<>>, idx |-> 1, model_calls |-> <<>>, before |-> <<>>,
     held |-> "none", result |-> "", posted |-> NoPortfolio,
     status |-> "none", failure |-> "none", length |-> 0, has_portfolio |-> FALSE]

Running(th) == requests[th].pc # "done"

\* What the client's cookie is after the response of request record r: Flask
\* saves a session the handler wrote to, and the client has the cookie when
\* the response is there.
Cookie(r) == IF r.new_session THEN Put(session, r.client, r.conv_id) ELSE session

\* The handler returns its response.
Respond(th, status, failure) ==
    LET r == requests[th] IN
    /\ requests' = [requests EXCEPT ![th] =
                        [r EXCEPT !.pc = "done", !.held = "none",
                                  !.status = status, !.failure = failure]]
    /\ session' = Cookie(r)

\* The handler goes on to its next statement that reads or writes
\* conversations or portfolios.
Goto(th, pc) ==
    /\ requests' = [requests EXCEPT ![th].pc = pc]
    /\ UNCHANGED session

\* conversations[conv_id] of an append whose argument is yet to be built: the
\* handler has the list and goes on to pc, or the KeyError of a conversation
\* that is not there ends it with the error response.
Lookup(th, pc) ==
    LET r == requests[th] IN
    IF r.conv_id \in DOMAIN conversations
    THEN /\ requests' = [requests EXCEPT ![th] =
                [r EXCEPT !.pc = pc, !.held = "live",
                          !.before = conversations[r.conv_id]]]
         /\ UNCHANGED session
    ELSE Respond(th, "error", "state")

\* list.append(msg) on the list the handler has: the conversation gets the
\* message if the list is still the one in the dictionary.
Appended(th, msg) ==
    LET r == requests[th] IN
    IF r.held = "live"
    THEN [conversations EXCEPT ![r.conv_id] = Append(@, msg)]
    ELSE conversations

\* A request of client c reaches handler kind in thread th with the cookie the
\* client has now: the handler takes conv_id from it, or puts a new id in a
\* session that has none.  Nothing of conversations or portfolios is touched.
Arrives(c, th, kind, p, pc) ==
    LET known == c \in DOMAIN session
        id == IF known THEN session[c] ELSE NewConversationId
    IN  /\ requests' = [requests EXCEPT ![th] =
               [NoRequest EXCEPT !.kind = kind, !.client = c, !.conv_id = id,
                                 !.new_session = ~known, !.turn = clock + 1,
                                 !.pc = pc, !.posted = p, !.status = "running"]]
        /\ clock' = clock + 1
        /\ uuid' = IF known THEN uuid ELSE NewConversationId
        /\ owner' = SetDefault(owner, id, c)
        /\ UNCHANGED <<conversations, portfolios, session>>

\* The 400 or 500 response of a request turned away at the door, as the
\* thread th that handled it returns it.
Rejected(c, th, why) ==
    requests' = [requests EXCEPT ![th] =
                    [NoRequest EXCEPT !.client = c, !.turn = clock + 1,
                                      !.status = "error", !.failure = why]]

\* /chat with a message, up to conv_id = session['conversation_id']: on a
\* server whose agent could not be made it returns the 500 response before
\* it looks at the session.
ChatBegin(c, th) ==
    /\ program = "web"
    /\ ~Running(th)
    /\ IF llm_with_tools = "None"
       THEN /\ Rejected(c, th, "not_configured")
            /\ clock' = clock + 1
            /\ UNCHANGED <<conversations, portfolios, session, uuid, owner>>
       ELSE Arrives(c, th, "chat", NoPortfolio, "init")
    /\ UNCHANGED <<program, llm_with_tools, analytics, cli>>

\* A /chat that sets portfolios[conv_id] = {} whether or not the id has one.
InitPortfolio_blank(id) == Put(portfolios, id, NoPortfolio)

\* if conv_id not in portfolios: portfolios[conv_id] = {}
InitPortfolio(id) == SetDefault(portfolios, id, NoPortfolio)

\* if conv_id not in conversations: conversations[conv_id] = [], after which
\* the handler prints; with a conversation that is there it goes straight on
\* to the portfolio entry and to conversations[conv_id] of the first append.
ChatInit(th) ==
    /\ requests[th].pc = "init"
    /\ IF requests[th].conv_id \in DOMAIN conversations
       THEN /\ portfolios' = InitPortfolio(requests[th].conv_id)
            /\ Lookup(th, "ask")
            /\ UNCHANGED conversations
       ELSE /\ conversations' = Put(conversations, requests[th].conv_id, <<>>)
            /\ Goto(th, "created")
            /\ UNCHANGED portfolios
    /\ UNCHANGED <<program, llm_with_tools, analytics, clock, uuid, owner, cli>>

\* After a new conversation was printed: the portfolio entry, and
\* conversations[conv_id] of the first append.
ChatCreated(th) ==
    /\ requests[th].pc = "created"
    /\ portfolios' = InitPortfolio(requests[th].conv_id)
    /\ Lookup(th, "ask")
    /\ UNCHANGED <<program, llm_with_tools, analytics, conversations, clock, uuid, owner, cli>>

\* .append(HumanMessage(content=user_message)), once the message is built
ChatAsks(th) ==
    /\ requests[th].pc = "ask"
    /\ LET r == requests[th]
           msg == HumanMessage(r.turn, "question", NoPortfolio)
       IN  /\ conversations' = Appended(th, msg)
           /\ requests' = [requests EXCEPT ![th] =
                  [r EXCEPT !.pc = "len", !.held = "none",
                            !.before = Append(r.before, msg)]]
    /\ UNCHANGED <<program, llm_with_tools, analytics, portfolios, session, clock, uuid, owner, cli>>

\* len(conversations[conv_id]) of the line the handler prints after the
\* user's message
ChatLen(th) ==
    /\ requests[th].pc = "len"
    /\ IF requests[th].conv_id \in DOMAIN conversations
       THEN Goto(th, "call1")
       ELSE Respond(th, "error", "state")
    /\ UNCHANGED <<program, llm_with_tools, analytics, conversations, portfolios, clock, uuid, owner, cli>>

\* llm_with_tools.invoke(conversations[conv_id]): the handler looks the
\* history up and the model call starts.
ChatCallsModel(th) ==
    /\ requests[th].pc \in {"call1", "call2"}
    /\ IF requests[th].conv_id \in DOMAIN conversations
       THEN Goto(th, IF requests[th].pc = "call1" THEN "llm1" ELSE "llm2")
       ELSE Respond(th, "error", "state")
    /\ UNCHANGED <<program, llm_with_tools, analytics, conversations, portfolios, clock, uuid, owner, cli>>

\* The first model call returns a response without tool calls:
\* conversations[conv_id].append(response)
ModelReplies(th) ==
    /\ requests[th].pc = "llm1"
    /\ LET r == requests[th] IN
       IF r.conv_id \in DOMAIN conversations
       THEN /\ conversations' =
                   [conversations EXCEPT ![r.conv_id] = Append(@, AIMessage(r.turn, <<>>))]
            /\ Goto(th, "respond")
       ELSE /\ Respond(th, "error", "state")
            /\ UNCHANGED conversations
    /\ UNCHANGED <<program, llm_with_tools, analytics, portfolios, clock, uuid, owner, cli>>

\* Where the handler stands when request i of the response is the next one:
\* in the loop, or past it at the second model call.
LoopAt(calls, i) == IF i <= Len(calls) THEN "loop" ELSE "call2"

\* The first model call returns tool-call requests:
\* conversations[conv_id].append(response)
ModelRequestsTools(th, calls) ==
    /\ requests[th].pc = "llm1"
    /\ calls # <<>>
    /\ LET r == requests[th] IN
       IF r.conv_id \in DOMAIN conversations
       THEN /\ conversations' =
                   [conversations EXCEPT ![r.conv_id] = Append(@, AIMessage(r.turn, calls))]
            /\ requests' = [requests EXCEPT ![th] =
                   [r EXCEPT !.pc = "loop", !.calls = calls, !.model_calls = calls,
                             !.idx = 1]]
            /\ UNCHANGED session
       ELSE /\ Respond(th, "error", "state")
            /\ UNCHANGED conversations
    /\ UNCHANGED <<program, llm_with_tools, analytics, portfolios, clock, uuid, owner, cli>>

\* A model call raises: except Exception returns the error response.
ModelFails(th) ==
    /\ requests[th].pc \in {"llm1", "llm2"}
    /\ Respond(th, "error", IF requests[th].pc = "llm1" THEN "model1" ELSE "model2")
    /\ UNCHANGED <<program, llm_with_tools, analytics, conversations, portfolios, clock, uuid, owner, cli>>

\* One request of for tool_call in response.tool_calls, up to the handler's
\* invocation: the portfolio stored now is written into the arguments of a
\* portfolio tool that has none (and with them into the message that holds
\* them, where the conversation has that message); a name that is not in
\* tools_map is passed over.
LoopStep(th) ==
    /\ requests[th].pc = "loop"
    /\ LET r == requests[th]
           call == InjectPortfolio(r.calls[r.idx], portfolios[r.conv_id])
           calls == [r.calls EXCEPT ![r.idx] = call]
       IN  /\ conversations' =
                  IF r.conv_id \in DOMAIN conversations
                  THEN [conversations EXCEPT ![r.conv_id] = Aliased(@, calls)]
                  ELSE conversations
           /\ requests' = [requests EXCEPT ![th] =
                  IF call.name \in tools_map
                  THEN [r EXCEPT !.calls = calls, !.pc = "tool"]
                  ELSE [r EXCEPT !.calls = calls, !.idx = r.idx + 1,
                                 !.pc = LoopAt(calls, r.idx + 1)]]
    /\ UNCHANGED <<program, llm_with_tools, analytics, portfolios, session, clock, uuid, owner, cli>>

\* tools_map[tool_name].invoke(tool_args) ends: with its exception, which ends
\* the turn, or with its result, and the handler goes on to
\* conversations[conv_id] of the append of the tool message.
ToolReturns(th, m) ==
    /\ requests[th].pc = "tool"
    /\ LET r == requests[th]
           result == InvokeTool(r.calls[r.idx], m)
       IN  IF result.raised
           THEN Respond(th, "error", "tool")
           ELSE IF r.conv_id \notin DOMAIN conversations
           THEN Respond(th, "error", "state")
           ELSE /\ requests' = [requests EXCEPT ![th] =
                       [r EXCEPT !.pc = "record", !.held = "live",
                                 !.result = result.text]]
                /\ UNCHANGED session
    /\ UNCHANGED <<program, llm_with_tools, analytics, conversations, portfolios, clock, uuid, owner, cli>>

\* .append(ToolMessage(content=str(result), tool_call_id=tool_call_id)), once
\* the message is built; the loop goes on to the next request.
ToolRecorded(th) ==
    /\ requests[th].pc = "record"
    /\ LET r == requests[th] IN
       /\ conversations' =
              Appended(th, ToolMessage(r.turn, r.result, r.calls[r.idx].id))
       /\ requests' = [requests EXCEPT ![th] =
              [r EXCEPT !.idx = r.idx + 1, !.pc = LoopAt(r.calls, r.idx + 1),
                        !.held = "none", !.result = ""]]
    /\ UNCHANGED <<program, llm_with_tools, analytics, portfolios, session, clock, uuid, owner, cli>>

\* The second model call returns: conversations[conv_id].append(final_response),
\* as the response is.
FinalReply(th, calls) ==
    /\ requests[th].pc = "llm2"
    /\ LET r == requests[th] IN
       IF r.conv_id \in DOMAIN conversations
       THEN /\ conversations' =
                   [conversations EXCEPT ![r.conv_id] = Append(@, AIMessage(r.turn, calls))]
            /\ Goto(th, "respond")
       ELSE /\ Respond(th, "error", "state")
            /\ UNCHANGED conversations
    /\ UNCHANGED <<program, llm_with_tools, analytics, portfolios, clock, uuid, owner, cli>>

\* len(conversations[conv_id]) of the response: the last place of /chat
\* where a conversation that is not there is a KeyError.
ChatCounts(th) ==
    /\ requests[th].kind = "chat"
    /\ requests[th].pc = "respond"
    /\ IF requests[th].conv_id \in DOMAIN conversations
       THEN requests' = [requests EXCEPT ![th].pc = "return",
                                         ![th].length = Len(conversations[requests[th].conv_id])]
       ELSE requests' = [requests EXCEPT ![th].pc = "done", ![th].held = "none",
                                         ![th].status = "error", ![th].failure = "state"]
    /\ session' = IF requests[th].conv_id \in DOMAIN conversations
                  THEN session ELSE Cookie(requests[th])
    /\ UNCHANGED <<program, llm_with_tools, analytics, conversations, portfolios, clock, uuid, owner, cli>>

\* bool(portfolios.get(conv_id, {})) and return jsonify(...) of /chat, with
\* the length the handler has counted
ChatResponds(th) ==
    /\ requests[th].kind = "chat"
    /\ requests[th].pc = "return"
    /\ requests' = [requests EXCEPT
           ![th].pc = "done", ![th].held = "none",
           ![th].status = "success", ![th].failure = "none",
           ![th].has_portfolio =
               /\ requests[th].conv_id \in DOMAIN portfolios
               /\ portfolios[requests[th].conv_id] # NoPortfolio]
    /\ session' = Cookie(requests[th])
    /\ UNCHANGED <<program, llm_with_tools, analytics, conversations, portfolios, clock, uuid, owner, cli>>

\* /set_portfolio with a non-empty portfolio, up to
\* conv_id = session['conversation_id']
set_portfolio(c, th, p) ==
    /\ program = "web"
    /\ ~Running(th)
    /\ Arrives(c, th, "set_portfolio", p, "store")
    /\ UNCHANGED <<program, llm_with_tools, analytics, cli>>

\* portfolios[conv_id] = portfolio, and conversations[conv_id] = [] for an id
\* that has no conversation
StorePortfolio(th) ==
    /\ requests[th].pc = "store"
    /\ portfolios' = Put(portfolios, requests[th].conv_id, requests[th].posted)
    /\ conversations' = SetDefault(conversations, requests[th].conv_id, <<>>)
    /\ Goto(th, "join")
    /\ UNCHANGED <<program, llm_with_tools, analytics, clock, uuid, owner, cli>>

\* After portfolio_str is joined: conversations[conv_id] of the append.  The
\* handler catches nothing, so the KeyError of a conversation deleted since is
\* Flask's error response.
PortfolioJoined(th) ==
    /\ requests[th].pc = "join"
    /\ Lookup(th, "tell")
    /\ UNCHANGED <<program, llm_with_tools, analytics, conversations, portfolios, clock, uuid, owner, cli>>

\* .append(HumanMessage("My portfolio consists of: ...")), once the message
\* is built
TellPortfolio(th) ==
    /\ requests[th].pc = "tell"
    /\ LET r == requests[th] IN
       /\ conversations' =
              Appended(th, HumanMessage(r.turn, "My portfolio consists of", r.posted))
       /\ requests' = [requests EXCEPT ![th] =
              [r EXCEPT !.pc = "respond", !.held = "none", !.before = <<>>]]
    /\ UNCHANGED <<program, llm_with_tools, analytics, portfolios, session, clock, uuid, owner, cli>>

\* return jsonify(...) of /set_portfolio
PortfolioSaved(th) ==
    /\ requests[th].kind = "set_portfolio"
    /\ requests[th].pc = "respond"
    /\ Respond(th, "success", "none")
    /\ UNCHANGED <<program, llm_with_tools, analytics, conversations, portfolios, clock, uuid, owner, cli>>

\* /reset with a conversation id in the session, up to
\* conv_id = session['conversation_id']
reset_conversation(c, th) ==
    /\ program = "web"
    /\ ~Running(th)
    /\ c \in DOMAIN session
    /\ Arrives(c, th, "reset", NoPortfolio, "delete")
    /\ UNCHANGED <<program, llm_with_tools, analytics, cli>>

\* A /reset that empties the dictionary of conversations:
\* conversations.clear() in the place of del conversations[conv_id].
DeleteConversation_clear(th) ==
    /\ requests[th].pc = "delete"
    /\ conversations' = EmptyDict
    /\ requests' = [t \in DOMAIN requests |->
           IF t = th THEN [requests[t] EXCEPT !.pc = "renew"]
           ELSE IF requests[t].held = "live"
           THEN [requests[t] EXCEPT !.held = "orphan"]
           ELSE requests[t]]
    /\ UNCHANGED <<program, llm_with_tools, analytics, portfolios, session, clock, uuid, owner, cli>>

\* if conv_id in conversations: del conversations[conv_id].  A handler that
\* has the list of this conversation for an append keeps a list the
\* dictionary has no more.
DeleteConversation(th) ==
    /\ requests[th].pc = "delete"
    /\ conversations' = Del(conversations, requests[th].conv_id)
    /\ requests' = [t \in DOMAIN requests |->
           IF t = th THEN [requests[t] EXCEPT !.pc = "renew"]
           ELSE IF requests[t].conv_id = requests[th].conv_id /\ requests[t].held = "live"
           THEN [requests[t] EXCEPT !.held = "orphan"]
           ELSE requests[t]]
    /\ UNCHANGED <<program, llm_with_tools, analytics, portfolios, session, clock, uuid, owner, cli>>

\* session['conversation_id'] = str(uuid.uuid4()) and the response of /reset,
\* with which the client has the new id
ResetResponds(th) ==
    /\ requests[th].pc = "renew"
    /\ requests' = [requests EXCEPT ![th] =
           [@ EXCEPT !.pc = "done", !.status = "success", !.new_session = TRUE]]
    /\ session' = Put(session, requests[th].client, NewConversationId)
    /\ uuid' = NewConversationId
    /\ owner' = Put(owner, NewConversationId, requests[th].client)
    /\ UNCHANGED <<program, llm_with_tools, analytics, conversations, portfolios, clock, cli>>

\* dict.get(key, default) of a JSON body
Get(d, k, default) == IF k \in DOMAIN d THEN d[k] ELSE default

\* The JSON a client posts to /chat: no "message", an empty one, a question.
ChatBodies == { EmptyDict, [message |-> ""], [message |-> "question"] }

\* The JSON a client posts to /set_portfolio: no "portfolio", an empty one,
\* holdings.
PortfolioBodies ==
    { EmptyDict, [portfolio |-> NoPortfolio] } \cup { [portfolio |-> p] : p \in UserPortfolios }

\* A /chat that opens the session before it looks at the message.
chat_rejected_after_session(c, th) ==
    /\ Rejected(c, th, "no_message")
    /\ session' = SetDefault(session, c, NewConversationId)
    /\ uuid' = IF c \in DOMAIN session THEN uuid ELSE NewConversationId
    /\ UNCHANGED <<conversations, portfolios, owner>>

\* /chat with a message that is missing or empty: the 400 response, before
\* the session is looked at.
chat_rejected(c, th) ==
    /\ Rejected(c, th, "no_message")
    /\ UNCHANGED <<conversations, portfolios, session, uuid, owner>>

\* /chat with the body it is posted
chat(c, th, body) ==
    /\ program = "web"
    /\ ~Running(th)
    /\ IF Get(body, "message", "") = ""
       THEN /\ chat_rejected(c, th)
            /\ clock' = clock + 1
            /\ UNCHANGED <<program, llm_with_tools, analytics, cli>>
       ELSE ChatBegin(c, th)

\* /set_portfolio with a portfolio that is missing or empty: the 400 response
set_portfolio_rejected(c, th) ==
    /\ Rejected(c, th, "no_portfolio")
    /\ UNCHANGED <<conversations, portfolios, session, uuid, owner>>

\* /set_portfolio with the body it is posted, handled by thread th
post_set_portfolio(c, th, body) ==
    /\ program = "web"
    /\ ~Running(th)
    /\ IF Get(body, "portfolio", NoPortfolio) = NoPortfolio
       THEN /\ set_portfolio_rejected(c, th)
            /\ clock' = clock + 1
            /\ UNCHANGED <<program, llm_with_tools, analytics, cli>>
       ELSE set_portfolio(c, th, body.portfolio)

\* The thread that takes the next request: Flask starts one for each, and
\* which slot of the model holds it makes no difference.
FreeSlot(slots, th) ==
    /\ ~Running(th)
    /\ th = (CHOOSE free \in slots : ~Running(free))

\* The server's steps for the requests of client c: at most the given slots
\* are handled at one time, the model's first responses ask for the given
\* lists of tools, /set_portfolio posts one of the given portfolios.
ClientNext(c, slots, lists, finals, posted, limit) ==
    \/ \E th \in slots : clock < limit /\ FreeSlot(slots, th) /\ ChatBegin(c, th)
    \/ \E th \in slots : requests[th].client = c /\ ChatInit(th)
    \/ \E th \in slots : requests[th].client = c /\ ChatCreated(th)
    \/ \E th \in slots : requests[th].client = c /\ ChatAsks(th)
    \/ \E th \in slots : requests[th].client = c /\ ChatLen(th)
    \/ \E th \in slots : requests[th].client = c /\ ChatCallsModel(th)
    \/ \E th \in slots : requests[th].client = c /\ ModelReplies(th)
    \/ \E th \in slots : \E l \in lists :
            /\ requests[th].client = c
            /\ ModelRequestsTools(th, WithIds(l, requests[th].turn, 1))
    \/ \E th \in slots : requests[th].client = c /\ ModelFails(th)
    \/ \E th \in slots : requests[th].client = c /\ LoopStep(th)
    \/ \E th \in slots :
            /\ requests[th].client = c
            /\ requests[th].pc = "tool"
            /\ \E m \in Markets(requests[th].calls[requests[th].idx]) : ToolReturns(th, m)
    \/ \E th \in slots : requests[th].client = c /\ ToolRecorded(th)
    \/ \E th \in slots : \E l \in finals :
            /\ requests[th].client = c
            /\ FinalReply(th, WithIds(l, requests[th].turn, 2))
    \/ \E th \in slots : requests[th].client = c /\ ChatCounts(th)
    \/ \E th \in slots : requests[th].client = c /\ ChatResponds(th)
    \/ \E th \in slots : \E p \in posted :
            clock < limit /\ FreeSlot(slots, th) /\ set_portfolio(c, th, p)
    \/ \E th \in slots : requests[th].client = c /\ StorePortfolio(th)
    \/ \E th \in slots : requests[th].client = c /\ PortfolioJoined(th)
    \/ \E th \in slots : requests[th].client = c /\ TellPortfolio(th)
    \/ \E th \in slots : requests[th].client = c /\ PortfolioSaved(th)
    \/ \E th \in slots : clock < limit /\ FreeSlot(slots, th) /\ reset_conversation(c, th)
    \/ \E th \in slots : requests[th].client = c /\ DeleteConversation(th)
    \/ \E th \in slots : requests[th].client = c /\ ResetResponds(th)

WebNext(clients, slots, lists, finals, posted, limit) ==
    \E c \in clients : ClientNext(c, slots, lists, finals, posted, limit)

----------------------------------------------------------------------------
(* main.py: chat_with_agent, one thread, conversation_history and          *)
(* user_portfolio are its locals.                                          *)

CliOff ==
    [pc |-> "off", conversation_history |-> <<>>, user_portfolio |-> NoPortfolio,
     turn |-> 0, calls |-> <<>>, idx |-> 1, model_calls |-> <<>>, before |-> <<>>,
     status |-> "none", failure |-> "none"]

\* A line typed at "Add holding": TICKER SHARES, or anything that is not two
\* parts of which the second is an integer.
Holding(ticker, shares) == [kind |-> "holding", ticker |-> ticker, shares |-> shares]

Malformed == [kind |-> "malformed", ticker |-> "", shares |-> 0]

\* setup_manual_portfolio: the portfolio after the first i lines.  A
\* malformed line and a line with shares <= 0 are skipped; the ticker is
\* upper-cased and a ticker typed again overwrites.
RECURSIVE HoldingsAfter(_, _)
HoldingsAfter(entries, i) ==
    IF i = 0 THEN NoPortfolio
    ELSE LET portfolio == HoldingsAfter(entries, i - 1)
             entry == entries[i]
         IN  IF entry.kind # "holding" \/ entry.shares <= 0 THEN portfolio
             ELSE {item \in portfolio : item[1] # upper(entry.ticker)}
                      \cup {<<upper(entry.ticker), entry.shares>>}

setup_manual_portfolio(entries) == HoldingsAfter(entries, Len(entries))

\* What is typed before "done": nothing, lower-case tickers, a ticker typed
\* twice, shares of zero and below, a line that does not parse.
TypedEntries ==
    { <<>>,
      <<Holding("aapl", 10)>>,
      <<Holding("AAPL", 10), Holding("aapl", 5)>>,
      <<Holding("AAPL", 10), Holding("MSFT", 0)>>,
      <<Holding("MSFT", -3)>>,
      <<Malformed, Holding("msft", 5)>> }

\* The bodies /set_portfolio is posted: the server takes the "portfolio" of
\* the JSON as it comes.
PostedPortfolios ==
    UserPortfolios \cup { {<<"aapl", 10>>}, {<<"AAPL", -5>>}, {<<"AAPL", 10>>, <<"MSFT", 0>>} }

\* setup_portfolio(): nothing, the holdings typed in, or an example portfolio
SetupChoices == {NoPortfolio} \cup UserPortfolios \cup CliExamples

\* user_portfolio = setup_portfolio() and the first message of the history
CliSetup(p) ==
    /\ program = "cli"
    /\ cli.pc = "setup"
    /\ cli' = [cli EXCEPT
                  !.pc = "prompt",
                  !.user_portfolio = p,
                  !.conversation_history =
                      IF p # NoPortfolio
                      THEN <<HumanMessage(0, "My portfolio consists of", p)>>
                      ELSE <<>>]
    /\ UNCHANGED <<program, llm_with_tools, analytics, webvars, clock>>

\* "reset", "clear" or "new" at the prompt
CliReset ==
    /\ cli.pc = "prompt"
    /\ clock < MaxOps
    /\ cli' = [cli EXCEPT !.conversation_history = <<>>, !.user_portfolio = NoPortfolio,
                          !.status = "none", !.failure = "none"]
    /\ clock' = clock + 1
    /\ UNCHANGED <<program, llm_with_tools, analytics, webvars>>

\* "portfolio" at the prompt, then 1 (edit: setup_portfolio() again) or 2 (clear)
CliPortfolio(p) ==
    /\ cli.pc = "prompt"
    /\ clock < MaxOps
    /\ cli' = [cli EXCEPT !.user_portfolio = p, !.status = "none", !.failure = "none"]
    /\ clock' = clock + 1
    /\ UNCHANGED <<program, llm_with_tools, analytics, webvars>>

\* Any other non-empty input: the user message, then the first model call.
CliChatBegin ==
    /\ cli.pc = "prompt"
    /\ clock < MaxOps
    /\ LET history == Append(cli.conversation_history,
                             HumanMessage(clock + 1, "question", NoPortfolio))
       IN  cli' = [cli EXCEPT !.pc = "llm1", !.conversation_history = history,
                              !.turn = clock + 1, !.calls = <<>>, !.idx = 1,
                              !.model_calls = <<>>, !.before = history,
                              !.status = "running", !.failure = "none"]
    /\ clock' = clock + 1
    /\ UNCHANGED <<program, llm_with_tools, analytics, webvars>>

\* The turn is over and the loop is back at the prompt.
CliPrompt(r, status, failure) ==
    [r EXCEPT !.pc = "prompt", !.status = status, !.failure = failure]

CliContinueLoop(r, h, i) ==
    LET loop == LoopFrom(r.calls, i, r.user_portfolio)
    IN  cli' = [r EXCEPT !.pc = IF loop.pc = "llm2" THEN "llm2" ELSE "tool",
                         !.calls = loop.calls, !.idx = loop.idx,
                         !.conversation_history = Aliased(h, loop.calls)]

CliModelReplies ==
    /\ cli.pc = "llm1"
    /\ cli' = CliPrompt([cli EXCEPT !.conversation_history = Append(@, AIMessage(cli.turn, <<>>))],
                        "success", "none")
    /\ UNCHANGED <<program, llm_with_tools, analytics, webvars, clock>>

CliModelRequestsTools(calls) ==
    /\ cli.pc = "llm1"
    /\ calls # <<>>
    /\ CliContinueLoop([cli EXCEPT !.calls = calls, !.model_calls = calls],
                       Append(cli.conversation_history, AIMessage(cli.turn, calls)), 1)
    /\ UNCHANGED <<program, llm_with_tools, analytics, webvars, clock>>

\* except Exception: the error is printed and the loop goes on
CliModelFails ==
    /\ cli.pc \in {"llm1", "llm2"}
    /\ cli' = CliPrompt(cli, "error", IF cli.pc = "llm1" THEN "model1" ELSE "model2")
    /\ UNCHANGED <<program, llm_with_tools, analytics, webvars, clock>>

CliToolReturns(m) ==
    /\ LET call == cli.calls[cli.idx]
           result == InvokeTool(call, m)
       IN  IF result.raised
           THEN cli' = CliPrompt(cli, "error", "tool")
           ELSE CliContinueLoop(cli,
                    Append(cli.conversation_history,
                           ToolMessage(cli.turn, result.text, call.id)),
                    cli.idx + 1)
    /\ UNCHANGED <<program, llm_with_tools, analytics, webvars, clock>>

CliFinalReply(calls) ==
    /\ cli.pc = "llm2"
    /\ cli' = CliPrompt([cli EXCEPT !.conversation_history = Append(@, AIMessage(cli.turn, calls))],
                        "success", "none")
    /\ UNCHANGED <<program, llm_with_tools, analytics, webvars, clock>>

CliNext(lists, finals) ==
    \/ \E p \in SetupChoices : CliSetup(p)
    \/ CliReset
    \/ \E p \in SetupChoices : CliPortfolio(p)
    \/ CliChatBegin
    \/ CliModelReplies
    \/ \E l \in lists : CliModelRequestsTools(WithIds(l, cli.turn, 1))
    \/ CliModelFails
    \/ /\ cli.pc = "tool"
       /\ \E m \in Markets(cli.calls[cli.idx]) : CliToolReturns(m)
    \/ \E l \in finals : CliFinalReply(WithIds(l, cli.turn, 2))

----------------------------------------------------------------------------
(* Specifications *)

Init ==
    /\ program \in {"web", "cli"}
    /\ llm_with_tools \in IF program = "web" THEN {"bound", "None"} ELSE {"bound"}
    /\ conversations = EmptyDict
    /\ portfolios = EmptyDict
    /\ session = EmptyDict
    /\ requests = [th \in Slots |-> NoRequest]
    /\ clock = 0
    /\ uuid = 0
    /\ owner = EmptyDict
    /\ cli = [CliOff EXCEPT !.pc = IF program = "cli" THEN "setup" ELSE "off"]
    /\ analytics = NoCall

\* One client that sends one request at a time; or the terminal program.
Next ==
    \/ WebNext({"alice"}, {"r1"}, ShapeLists, {<<>>}, UserPortfolios, MaxOps)
    \/ CliNext(ShapeLists, {<<>>})

Spec == Init /\ [][Next]_vars

\* Both programs with everything a user can hand in as a portfolio.
PortfoliosNext ==
    \/ WebNext({"alice"}, {"r1"}, FewLists, {<<>>}, PostedPortfolios, MaxOps)
    \/ CliNext(FewLists, {<<>>})
    \/ \E e \in TypedEntries : CliSetup(setup_manual_portfolio(e))
    \/ \E e \in TypedEntries : CliPortfolio(setup_manual_portfolio(e))

SpecPortfolios == Init /\ [][PortfoliosNext]_vars

\* Both programs with a model whose second response of a turn may ask for
\* tools again.
FinalsNext ==
    \/ WebNext({"alice"}, {"r1"}, FewLists, FewLists \cup {<<>>}, UserPortfolios, MaxOps)
    \/ CliNext(FewLists, FewLists \cup {<<>>})

SpecFinals == Init /\ [][FinalsNext]_vars

\* Two clients and two requests at a time.
InitWeb == Init /\ program = "web"

\* What the model asks for in the runs with two clients: the value of the
\* portfolio, which the handler gets from the portfolio stored for the turn's
\* conversation.
SessionLists == { << [name |-> "get_portfolio_value", args |-> NoArgs] >> }

SessionsNext == WebNext(Clients, Slots, SessionLists, {<<>>}, UserPortfolios, MaxSessionOps)

SpecSessions == InitWeb /\ [][SessionsNext]_vars

\* The web application with one client whose requests overlap: Flask's
\* development server handles every request in a thread of its own.
ThreadsNext == WebNext({"alice"}, Slots, FewLists, {<<>>}, UserPortfolios, MaxRequests)

SpecThreads == InitWeb /\ [][ThreadsNext]_vars

\* What the model asks for in the runs that look at the portfolio a handler
\* gets: a portfolio tool without a portfolio, with one of the model's own,
\* and one whose handler raises.
OverlapLists ==
    { << [name |-> "get_portfolio_value", args |-> NoArgs] >>,
      << [name |-> "get_portfolio_value", args |-> SuppliedArgs] >>,
      << [name |-> "rebalance_equal_weight", args |-> EmptyPortfolioArgs] >> }

\* One client whose requests overlap, with /set_portfolio and /reset at any
\* moment of a turn; or the terminal program, which is one thread.
OverlapNext ==
    \/ WebNext({"alice"}, Slots, OverlapLists, {<<>>}, UserPortfolios, MaxRequests)
    \/ CliNext(OverlapLists, {<<>>})

SpecOverlap == Init /\ [][OverlapNext]_vars

\* The web application with the bodies its routes are posted, the ones it
\* turns away included.
BodiesNext ==
    \/ WebNext({"alice"}, Slots, FewLists, {<<>>}, UserPortfolios, MaxOps)
    \/ \E th \in Slots : \E body \in ChatBodies :
            clock < MaxOps /\ chat("alice", th, body)
    \/ \E th \in Slots : \E body \in PortfolioBodies :
            clock < MaxOps /\ post_set_portfolio("alice", th, body)

SpecBodies == InitWeb /\ [][BodiesNext]_vars

\* The functions of stock_tools.py called on their own, each call with the
\* market data it meets.
AnalyticsCalls ==
    PortfolioValueCalls
        \cup PortfolioCalls("get_portfolio_diversification", SectorQuoteChoices)
        \cup PortfolioCalls("rebalance_equal_weight", QuoteChoices)
        \cup RecommendCalls
        \cup RiskProfileCalls
        \cup VolatilityCalls
        \cup BetaCalls
        \cup StockPriceCalls
        \cup MultiplePriceCalls
        \cup SuggestCalls

InitTools ==
    /\ program = "tools"
    /\ llm_with_tools = "bound"
    /\ conversations = EmptyDict
    /\ portfolios = EmptyDict
    /\ session = EmptyDict
    /\ requests = [th \in Slots |-> NoRequest]
    /\ clock = 0
    /\ uuid = 0
    /\ owner = EmptyDict
    /\ cli = CliOff
    /\ analytics \in AnalyticsCalls

ToolsNext ==
    \/ Call_get_portfolio_value
    \/ Call_get_portfolio_diversification
    \/ Call_rebalance_equal_weight
    \/ Call_recommend_portfolio_adjustments
    \/ Call_rebalance_by_risk_profile
    \/ Call_get_stock_volatility
    \/ Call_get_stock_beta
    \/ Call_get_stock_price
    \/ Call_get_multiple_stock_prices
    \/ Call_suggest_stocks_by_goal
    \/ Call_recommend_between

SpecTools == InitTools /\ [][ToolsNext]_vars

----------------------------------------------------------------------------
(* Views used by the properties *)

IsPrefix(a, b) == Len(a) <= Len(b) /\ SubSeq(b, 1, Len(a)) = a

Front(h) == SubSeq(h, 1, Len(h) - 1)

HasHistory(th) == requests[th].conv_id \in DOMAIN conversations

HistoryOf(th) == conversations[requests[th].conv_id]

\* What /history and /get_portfolio show a client: the conversation and the
\* portfolio stored under the id of its cookie.
SessionHistory(c) ==
    IF c \in DOMAIN session /\ session[c] \in DOMAIN conversations
    THEN conversations[session[c]] ELSE <<>>

SessionPortfolio(c) ==
    IF c \in DOMAIN session /\ session[c] \in DOMAIN portfolios
    THEN portfolios[session[c]] ELSE NoPortfolio

\* The call ids of the tool messages turn t has in history h, in order.
ToolResultIds(h, t) ==
    LET results == SelectSeq(h, LAMBDA msg : msg.role = "tool" /\ msg.turn = t)
    IN  [i \in 1..Len(results) |-> results[i].tool_call_id]

RequestIds(calls) == [i \in 1..Len(calls) |-> calls[i].id]

\* This step invokes a handler: the loop has stopped at a registered request.
WebDispatches(th) ==
    /\ requests'[th].pc = "tool"
    /\ requests[th].pc # "tool" \/ requests'[th].idx # requests[th].idx

CliDispatches ==
    /\ cli'.pc = "tool"
    /\ cli.pc # "tool" \/ cli'.idx # cli.idx

\* The request as the model made it, and as the handler gets it.
WebAsked(th) == requests'[th].model_calls[requests'[th].idx]

WebInvoked(th) == requests'[th].calls[requests'[th].idx]

CliAsked == cli'.model_calls[cli'.idx]

CliInvoked == cli'.calls[cli'.idx]

----------------------------------------------------------------------------
(* C1..C10 *)

\* C1: when the second model call of a turn is issued, the history holds one
\* tool message for each of the k requests of the first response, in request
\* order, each with the call_id of its request.
C1_OneResultPerRequest ==
    /\ \A th \in Slots :
          requests[th].pc = "llm2" /\ HasHistory(th) =>
              ToolResultIds(HistoryOf(th), requests[th].turn)
                  = RequestIds(requests[th].model_calls)
    /\ cli.pc = "llm2" =>
          ToolResultIds(cli.conversation_history, cli.turn) = RequestIds(cli.model_calls)

\* C2: a portfolio tool asked for without a portfolio, or with an empty one,
\* while the stored portfolio is empty, has no handler invoked for it.
C2_NoPortfolioAvailable ==
    [][ /\ \A th \in Slots :
              WebDispatches(th) /\ NeedsInjection(WebAsked(th)) =>
                  portfolios[requests'[th].conv_id] # NoPortfolio
        /\ CliDispatches /\ NeedsInjection(CliAsked) => cli.user_portfolio # NoPortfolio
      ]_vars

\* C3: after a turn in which a model call failed, no assistant or tool
\* message of that turn is in the history.
NoTraceOf(h, t) == \A i \in 1..Len(h) : h[i].turn = t => h[i].role = "user"

C3_RollbackOnModelFailure ==
    /\ \A th \in Slots :
          /\ requests[th].pc = "done"
          /\ requests[th].failure \in {"model1", "model2"}
          /\ HasHistory(th)
          => NoTraceOf(HistoryOf(th), requests[th].turn)
    /\ cli.pc = "prompt" /\ cli.failure \in {"model1", "model2"}
          => NoTraceOf(cli.conversation_history, cli.turn)

\* C4: no turn ends with the exception of a tool handler.
C4_DispatchNeverRaises ==
    /\ \A th \in Slots : requests[th].failure # "tool"
    /\ cli.failure # "tool"

\* C5: the history a turn found when it began is a prefix of the history
\* from then on, as long as the conversation is not reset.
C5_AppendOnly ==
    /\ \A th \in Slots :
          requests[th].status # "none" /\ HasHistory(th) =>
              IsPrefix(Front(requests[th].before), HistoryOf(th))
    /\ cli.status # "none" => IsPrefix(Front(cli.before), cli.conversation_history)

\* C6: every tool message follows an assistant message that holds a request
\* with its call_id, with nothing but tool messages in between, and the tool
\* messages after one assistant message are in the order of its requests.
Position(calls, id) == CHOOSE n \in 1..Len(calls) : calls[n].id = id

Answers(h, i, j) ==
    /\ h[i].role = "assistant"
    /\ \A k \in (i + 1)..(j - 1) : h[k].role = "tool"
    /\ \E n \in 1..Len(h[i].tool_calls) : h[i].tool_calls[n].id = h[j].tool_call_id

WellFormed(h) ==
    \A j \in 1..Len(h) :
        h[j].role = "tool" =>
            /\ \E i \in 1..(j - 1) : Answers(h, i, j)
            /\ \A i \in 1..(j - 1) : \A k \in (i + 1)..(j - 1) :
                  Answers(h, i, j) /\ Answers(h, i, k) =>
                      Position(h[i].tool_calls, h[k].tool_call_id)
                          < Position(h[i].tool_calls, h[j].tool_call_id)

C6_ResultsFollowRequests ==
    /\ \A id \in DOMAIN conversations : WellFormed(conversations[id])
    /\ WellFormed(cli.conversation_history)

\* C7: a reset leaves the session with an empty history and an empty
\* portfolio, and at no moment with one of the two only: once /reset has
\* deleted the messages of the session's conversation, the conversation has
\* no stored portfolio either, and when it has answered, the session shows
\* neither messages nor a portfolio.
C7_ResetClearsBoth ==
    /\ [](\A th \in Slots :
              (requests[th].kind = "reset" /\ requests[th].pc = "renew") =>
                  (portfolios[requests[th].conv_id] = NoPortfolio))
    /\ [][ /\ \A th \in Slots :
                  ResetResponds(th) =>
                      (/\ SessionHistory(requests[th].client)' = <<>>
                       /\ SessionPortfolio(requests[th].client)' = NoPortfolio)
           /\ CliReset =>
                  (cli'.conversation_history = <<>> /\ cli'.user_portfolio = NoPortfolio)
         ]_vars

\* C8: no two /chat requests of one conversation run at the same time, and
\* the messages of a turn are next to each other in the history.
Contiguous(h) ==
    \A i \in 1..Len(h) : \A k \in (i + 1)..Len(h) :
        h[i].turn = h[k].turn => \A j \in i..k : h[j].turn = h[i].turn

C8_OneTurnAtATime ==
    /\ \A a \in Slots : \A b \in Slots \ {a} :
          ~(/\ Running(a) /\ requests[a].kind = "chat"
            /\ Running(b) /\ requests[b].kind = "chat"
            /\ requests[a].conv_id = requests[b].conv_id)
    /\ \A id \in DOMAIN conversations : Contiguous(conversations[id])

\* C9: a step of a request of one client (a chat turn, /set_portfolio,
\* /reset), whatever requests of the other clients are running, leaves the
\* conversations and portfolios of the other clients as they were, and so
\* what their sessions show.
Untouched(b) ==
    /\ \A id \in DOMAIN owner :
          owner[id] = b =>
              /\ id \in DOMAIN conversations <=> id \in DOMAIN conversations'
              /\ id \in DOMAIN conversations => conversations'[id] = conversations[id]
              /\ id \in DOMAIN portfolios <=> id \in DOMAIN portfolios'
              /\ id \in DOMAIN portfolios => portfolios'[id] = portfolios[id]
    /\ SessionHistory(b)' = SessionHistory(b)
    /\ SessionPortfolio(b)' = SessionPortfolio(b)

C9_Isolation ==
    [][ \A a \in Clients :
            ClientNext(a, Slots, SessionLists, {<<>>}, UserPortfolios, MaxSessionOps) =>
                \A b \in Clients \ {a} : Untouched(b)
      ]_vars

\* C9 witness: one client has a stored portfolio and its message in its
\* history, while the other has had a turn with a tool result and then a
\* /reset, both answered.
C9_Witness ==
    \E a \in Clients : \E b \in Clients \ {a} :
        /\ \E th \in Slots :
              /\ requests[th].client = a
              /\ requests[th].kind = "reset"
              /\ requests[th].pc = "done"
              /\ requests[th].status = "success"
        /\ \E th \in Slots :
              /\ requests[th].client = a
              /\ requests[th].kind = "chat"
              /\ requests[th].pc = "done"
              /\ requests[th].status = "success"
              /\ requests[th].model_calls # <<>>
        /\ SessionPortfolio(b) # NoPortfolio
        /\ SessionHistory(b) # <<>>

\* C10: the handler of a portfolio tool gets the stored portfolio when the
\* request has none or an empty one and the stored one is not empty, and the
\* request's own portfolio, with its other arguments, when it has one.
C10_InjectedPortfolio ==
    [][ /\ \A th \in Slots :
              WebDispatches(th) /\ WebAsked(th).name \in PortfolioTools =>
                  /\ NeedsInjection(WebAsked(th))
                        /\ portfolios[requests'[th].conv_id] # NoPortfolio
                        => WebInvoked(th).args.portfolio = portfolios[requests'[th].conv_id]
                  /\ ~NeedsInjection(WebAsked(th)) => WebInvoked(th) = WebAsked(th)
        /\ CliDispatches /\ CliAsked.name \in PortfolioTools =>
              /\ NeedsInjection(CliAsked) /\ cli.user_portfolio # NoPortfolio
                    => CliInvoked.args.portfolio = cli.user_portfolio
              /\ ~NeedsInjection(CliAsked) => CliInvoked = CliAsked
      ]_vars

\* A handler is running with the stored portfolio of a web conversation in
\* place of the portfolio its request did not have.
C10_Witness ==
    \E th \in Slots :
        /\ requests[th].pc = "tool"
        /\ NeedsInjection(requests[th].model_calls[requests[th].idx])
        /\ requests[th].calls[requests[th].idx].args.portfolio \in UserPortfolios
        /\ requests[th].calls[requests[th].idx].args.portfolio
              = portfolios[requests[th].conv_id]

\* C11: a step of a chat turn leaves every stored portfolio as it was; a
\* conversation the turn creates gets the empty portfolio; a turn of the
\* terminal program leaves user_portfolio as it was.
C11_TurnKeepsPortfolio ==
    [][ /\ (\E th \in Slots : requests'[th].kind = "chat" /\ requests'[th] # requests[th]) =>
              /\ \A id \in DOMAIN portfolios :
                    id \in DOMAIN portfolios' /\ portfolios'[id] = portfolios[id]
              /\ \A id \in DOMAIN portfolios' \ DOMAIN portfolios :
                    portfolios'[id] = NoPortfolio
        /\ CliChatBegin \/ cli.pc \in {"llm1", "tool", "llm2"} =>
              cli'.user_portfolio = cli.user_portfolio
      ]_vars

\* A turn on a conversation with a stored portfolio ran a handler on that
\* portfolio and ended with the handler's exception.
C11_Witness ==
    \E th \in Slots :
        /\ requests[th].pc = "done"
        /\ requests[th].failure = "tool"
        /\ NeedsInjection(requests[th].model_calls[requests[th].idx])
        /\ portfolios[requests[th].conv_id] \in UserPortfolios

\* C12: get_portfolio_value succeeds whichever quotes fail; its total is the
\* sum of shares * price over the tickers whose quote succeeded; the
\* breakdown has shares, price and value for those, and the failed quote
\* with its error for the others.
Called(fn) == analytics.fn = fn /\ analytics.done

QuoteOk(t) == analytics.quotes[t].kind = "price"

C12_PartialFailureTolerant ==
    Called("get_portfolio_value") =>
        LET tickers == TickersOf(analytics.portfolio)
            ok == {t \in tickers : QuoteOk(t)}
            d == analytics.result.value
            worth == [t \in ok |->
                         SharesOf(analytics.portfolio, t) * round(analytics.quotes[t].raw, 10)]
        IN  /\ ~analytics.result.raised
            /\ d.success
            /\ d.portfolio_value = Sum(worth, ok)
            /\ DOMAIN d.breakdown = tickers
            /\ \A t \in ok :
                  /\ d.breakdown[t].shares = SharesOf(analytics.portfolio, t)
                  /\ d.breakdown[t].price = round(analytics.quotes[t].raw, 10)
                  /\ d.breakdown[t].value = worth[t]
            /\ \A t \in tickers \ ok :
                  /\ "error" \in DOMAIN d.breakdown[t]
                  /\ ~d.breakdown[t].success
                  /\ "value" \notin DOMAIN d.breakdown[t]

\* The scenario of the specification: AAPL 10 at $150 and a failed MSFT
\* quote give a total of 1500.00.
C12_Witness ==
    /\ Called("get_portfolio_value")
    /\ analytics.portfolio = {<<"AAPL", 10>>, <<"MSFT", 5>>}
    /\ analytics.quotes["AAPL"].raw = 150000
    /\ ~QuoteOk("MSFT")
    /\ analytics.result.value.success
    /\ analytics.result.value.portfolio_value = 150000
    /\ "error" \in DOMAIN analytics.result.value.breakdown["MSFT"]

\* C13: rebalance_equal_weight and get_portfolio_diversification, called
\* with a portfolio in which a quote fails, return a result and do not raise.
SomeQuoteFails == \E t \in DOMAIN analytics.quotes : ~QuoteOk(t)

C13_QuoteFailureNeverAborts ==
    /\ Called("rebalance_equal_weight") \/ Called("get_portfolio_diversification")
    /\ analytics.portfolio # NoPortfolio
    /\ SomeQuoteFails
    => ~analytics.result.raised

\* C14: with a quote for every ticker, rebalance_equal_weight returns the
\* target total / n and the adjustments target - current, rounded to cents,
\* and the adjustments add up to at most n cents in absolute value.
AllQuotesOk == \A t \in DOMAIN analytics.quotes : QuoteOk(t)

Worth(t) == SharesOf(analytics.portfolio, t) * round(analytics.quotes[t].raw, 10)

Abs(x) == IF x < 0 THEN -x ELSE x

C14_AdjustmentsZeroSum ==
    /\ Called("rebalance_equal_weight")
    /\ analytics.portfolio # NoPortfolio
    /\ AllQuotesOk
    => LET tickers == TickersOf(analytics.portfolio)
           n == Cardinality(tickers)
           total == Sum([t \in tickers |-> Worth(t)], tickers)
           d == analytics.result.value
       IN  /\ ~analytics.result.raised
           /\ d.success
           /\ d.target_value_each = round(total, n)
           /\ \A t \in tickers : d.adjustments[t] = round(total - n * Worth(t), n)
           /\ Abs(Sum(d.adjustments, tickers)) <= n

\* Three holdings whose total is not a multiple of three cents: the rounded
\* adjustments do not add up to zero.
C14_Witness ==
    /\ Called("rebalance_equal_weight")
    /\ Cardinality(analytics.portfolio) = 3
    /\ AllQuotesOk
    /\ analytics.result.value.success
    /\ Sum(analytics.result.value.adjustments, TickersOf(analytics.portfolio)) # 0

\* C15: recommend_portfolio_adjustments reports success exactly when the
\* goal is known and the diversification of the portfolio succeeds, and
\* then with a diversification score; otherwise it returns success = false.
C15_RecommendPropagatesFailure ==
    Called("recommend_portfolio_adjustments") =>
        LET suggestion == suggest_stocks_by_goal_dict(analytics.goal, GOAL_SUGGESTIONS)
            diversification ==
                get_portfolio_diversification_dict(analytics.portfolio, analytics.quotes)
            both == /\ suggestion.success
                    /\ ~diversification.raised
                    /\ diversification.value.success
        IN  /\ ~analytics.result.raised
            /\ analytics.result.value.success <=> both
            /\ both => analytics.result.value.diversification_score # None

\* C16: for a known profile, rebalance_by_risk_profile returns, for each
\* instrument of the profile's row in RISK_PROFILES, the amount
\* total_value * weight, total_value being the value of the portfolio.
KnownProfile == strip(lower(analytics.risk_profile)) \in DOMAIN RISK_PROFILES

C16_DollarAllocations ==
    Called("rebalance_by_risk_profile") /\ KnownProfile =>
        LET targets == RISK_PROFILES[strip(lower(analytics.risk_profile))]
            total == get_portfolio_value_dict(analytics.portfolio,
                                              analytics.quotes).portfolio_value
            d == analytics.result.value
        IN  /\ d.success
            /\ d.target_allocations = [t \in DOMAIN targets |-> round(total * targets[t], 100)]

\* C17 as stated: every spelling of a known profile succeeds, and any other
\* value gives success = false with an error that contains the value as it
\* was passed.
C17_ErrorHoldsValueAsPassed ==
    Called("rebalance_by_risk_profile") =>
        LET d == analytics.result.value
        IN  IF KnownProfile THEN d.success
            ELSE ~d.success /\ Contains(d.error, analytics.risk_profile)

\* C17: every spelling of a known profile succeeds, and any other value
\* gives success = false with an error that contains the value in lower
\* case, without the whitespace around it.
C17_ErrorHoldsLoweredValue ==
    Called("rebalance_by_risk_profile") =>
        LET d == analytics.result.value
        IN  IF KnownProfile THEN d.success
            ELSE ~d.success /\ Contains(d.error, strip(lower(analytics.risk_profile)))

\* An unknown profile spelled with a capital letter was refused, for a
\* portfolio that is not empty.
C17_Witness ==
    /\ Called("rebalance_by_risk_profile")
    /\ analytics.risk_profile # lower(analytics.risk_profile)
    /\ ~KnownProfile
    /\ ~analytics.result.value.success
    /\ analytics.portfolio # NoPortfolio

\* C18: get_stock_beta does not report success with a beta that is not a
\* number: where a return series is empty or the benchmark's returns have
\* no variance, the result has success = false and no beta.
BetaDegenerate ==
    LET returns_stock == LogReturns(analytics.stock_hist.closes)
        returns_spy == LogReturns(analytics.spy_hist.closes)
    IN  \/ returns_stock = <<>>
        \/ returns_spy = <<>>
        \/ Deviations(returns_spy, returns_spy) = 0

C18_BetaNeverNaN ==
    Called("get_stock_beta") =>
        LET d == analytics.result.value
        IN  /\ d.success => ~d.beta.nan
            /\ BetaDegenerate => ~d.success /\ "beta" \notin DOMAIN d

\* C19: get_stock_volatility has success = false for every history of fewer
\* than two closes (none, or exactly one), and success = true only for a
\* history of at least two closes.
C19_VolatilityNeedsTwoPoints ==
    Called("get_stock_volatility") =>
        LET d == analytics.result.value
        IN  d.success <=> (~analytics.hist.exc /\ Len(analytics.hist.closes) >= 2)

\* C20: get_portfolio_diversification has success = false for every
\* portfolio of fewer than two tickers, so a portfolio of one ticker never
\* gets a score.
C20_DiversificationNeedsTwoTickers ==
    (Called("get_portfolio_diversification") /\ Cardinality(TickersOf(analytics.portfolio)) < 2) =>
        /\ ~analytics.result.raised
        /\ ~analytics.result.value.success
        /\ "diversification_score" \notin DOMAIN analytics.result.value

\* C21: a lookup of get_stock_price that fails (no price for the symbol, or
\* an exception of the data source) does not raise, and its result has
\* success = false, an error (a message, so never None), and the key
\* "price" with the value None.
C21_FailedQuoteHasNonePrice ==
    (Called("get_stock_price") /\ analytics.quote.kind # "price") =>
        /\ ~analytics.result.raised
        /\ LET d == analytics.result.value
           IN  /\ ~d.success
               /\ "error" \in DOMAIN d
               /\ "price" \in DOMAIN d
               /\ d.price = None

\* C22: every result of get_stock_price, of a lookup that succeeds or that
\* fails, has all of the fields ticker, price, currency, company_name,
\* timestamp, success and error.
RequiredFields ==
    {"ticker", "price", "currency", "company_name", "timestamp", "success", "error"}

C22_AllFieldsPresent ==
    Called("get_stock_price") =>
        /\ ~analytics.result.raised
        /\ RequiredFields \subseteq DOMAIN analytics.result.value

\* C23: get_multiple_stock_prices returns one entry for each distinct
\* upper-cased ticker of the list, under the upper-case symbol; the entry's
\* "ticker" is its key, and the entry has a "price" and a "success" key
\* whether its lookup succeeded or not.
C23_OneEntryPerUppercaseTicker ==
    Called("get_multiple_stock_prices") =>
        /\ ~analytics.result.raised
        /\ LET results == analytics.result.value
               tickers == analytics.tickers
           IN  /\ DOMAIN results = {upper(tickers[i]) : i \in 1..Len(tickers)}
               /\ \A k \in DOMAIN results :
                      /\ results[k].ticker = k
                      /\ {"price", "success"} \subseteq DOMAIN results[k]

\* C24: every call of suggest_stocks_by_goal with a known goal (growth,
\* income, value, stability, in any case) returns the goal's list, in the
\* order of the first call's and of the table's, however many calls came
\* before and whatever calls of recommend_portfolio_adjustments came in
\* between; with any other goal it returns success = false.
KnownGoal == lower(analytics.goal) \in {Text_growth, Text_income, Text_value, Text_stability}

C24_SuggestionsDeterministic ==
    Called("suggest_stocks_by_goal") =>
        \A i \in 1..Len(analytics.results) :
            LET d == analytics.results[i]
            IN  IF KnownGoal
                THEN /\ d.success
                     /\ d.suggestions = analytics.results[1].suggestions
                     /\ d.suggestions = GOAL_SUGGESTIONS[lower(analytics.goal)]
                ELSE ~d.success /\ "suggestions" \notin DOMAIN d

\* C24 witness: a known goal spelled in capitals has been asked for
\* MaxRepeats times, and the last call before the last of them was a
\* successful recommend_portfolio_adjustments for the same goal, which came
\* after an earlier result.
C24_Witness ==
    /\ Called("suggest_stocks_by_goal")
    /\ Len(analytics.results) = MaxRepeats
    /\ KnownGoal
    /\ analytics.goal # lower(analytics.goal)
    /\ analytics.between # None
    /\ analytics.between[1].after \in 1..(MaxRepeats - 1)
    /\ ~analytics.between[1].result.raised
    /\ analytics.between[1].result.value.success
    /\ lower(analytics.between[1].result.value.goal) = lower(analytics.goal)
    /\ analytics.results[MaxRepeats].suggestions = <<"VOO", "BND", "XLU">>

\* C25: rebalance_equal_weight of the empty portfolio returns success =
\* false with an error, and does not raise: total_value / n is not computed
\* for n = 0.
C25_EmptyPortfolioRejected ==
    (Called("rebalance_equal_weight") /\ TickersOf(analytics.portfolio) = {}) =>
        /\ ~analytics.result.raised
        /\ ~analytics.result.value.success
        /\ "error" \in DOMAIN analytics.result.value
        /\ "target_value_each" \notin DOMAIN analytics.result.value

\* C25 witness: rebalance_equal_weight has been called with the empty
\* portfolio and has returned its "Portfolio empty" result.
C25_Witness ==
    /\ Called("rebalance_equal_weight")
    /\ analytics.portfolio = {}
    /\ analytics.result = Returns([success |-> FALSE, error |-> "Portfolio empty"])

\* C26: in every reachable state the portfolio of every conversation, set
\* at the terminal (typed in or an example) or by /set_portfolio, maps
\* upper-case tickers to share counts that are strictly positive.
ValidPortfolio(p) ==
    /\ \A item \in p : item[1] = upper(item[1]) /\ item[2] > 0
    /\ \A a, b \in p : a[1] = b[1] => a = b

C26_PortfoliosValid ==
    /\ \A id \in DOMAIN portfolios : ValidPortfolio(portfolios[id])
    /\ ValidPortfolio(cli.user_portfolio)

\* C27: when the handler of request j of a turn is invoked, and when its
\* invocation has failed, the history holds the tool messages of the
\* requests 1..j-1 of the turn, in request order, and no other of the turn.
ResultsBefore(h, t, calls, j) == ToolResultIds(h, t) = RequestIds(SubSeq(calls, 1, j - 1))

C27_ResultsBeforeNextDispatch ==
    /\ \A th \in Slots :
          /\ HasHistory(th)
          /\ requests[th].pc = "tool" \/ requests[th].failure = "tool"
          => ResultsBefore(HistoryOf(th), requests[th].turn, requests[th].model_calls,
                           requests[th].idx)
    /\ cli.pc = "tool" \/ cli.failure = "tool"
          => ResultsBefore(cli.conversation_history, cli.turn, cli.model_calls, cli.idx)

\* C28: money is rounded once, where it is returned: the total of
\* get_portfolio_value is the sum of shares * quoted price, rounded to cents,
\* and the target and the adjustments of rebalance_equal_weight are computed
\* from that sum and from shares * quoted price, rounded to cents at the end.
\* The quoted price is in thousandths of a dollar.
RawWorth(t) == SharesOf(analytics.portfolio, t) * analytics.quotes[t].raw

RawTotal == Sum([t \in TickersOf(analytics.portfolio) |-> RawWorth(t)],
                TickersOf(analytics.portfolio))

C28_RoundedOnceAtOutput ==
    /\ Called("get_portfolio_value") /\ AllQuotesOk
          => analytics.result.value.portfolio_value = round(RawTotal, 10)
    /\ Called("rebalance_equal_weight") /\ AllQuotesOk /\ analytics.portfolio # NoPortfolio
          => LET n == Cardinality(TickersOf(analytics.portfolio))
                 d == analytics.result.value
             IN  /\ d.target_value_each = round(RawTotal, 10 * n)
                 /\ \A t \in TickersOf(analytics.portfolio) :
                        d.adjustments[t] = round(RawTotal - n * RawWorth(t), 10 * n)

\* C29: the requests recorded in an assistant message of the history stay
\* as the model made them, arguments included, also after the loop has put
\* the stored or the example portfolio into the arguments of a handler.
RecordedAsMade(h, t, made) ==
    \A n \in 1..Len(h) :
        /\ h[n].role = "assistant"
        /\ h[n].turn = t
        /\ h[n].tool_calls # <<>>
        /\ h[n].tool_calls[1].id = made[1].id
        => h[n].tool_calls = made

C29_InjectionKeepsHistory ==
    /\ \A th \in Slots :
          HasHistory(th) /\ requests[th].model_calls # <<>>
              => RecordedAsMade(HistoryOf(th), requests[th].turn, requests[th].model_calls)
    /\ cli.model_calls # <<>>
          => RecordedAsMade(cli.conversation_history, cli.turn, cli.model_calls)

\* C30: a turn that ended well made one model call if the first response
\* asked for no tool and two if it did, each call leaving one assistant
\* message; and between turns every request of every assistant message of
\* the history has a tool message with its call_id later in the history,
\* also the requests of the second response of a turn.
AssistantMessages(h, t) == SelectSeq(h, LAMBDA msg : msg.role = "assistant" /\ msg.turn = t)

CallsMade(h, t, made) == Len(AssistantMessages(h, t)) = IF made = <<>> THEN 1 ELSE 2

AllAnswered(h) ==
    \A i \in 1..Len(h) :
        h[i].role = "assistant" =>
            \A n \in 1..Len(h[i].tool_calls) :
                \E j \in (i + 1)..Len(h) :
                    h[j].role = "tool" /\ h[j].tool_call_id = h[i].tool_calls[n].id

IdleConversation(id) == \A th \in Slots : requests[th].conv_id = id => requests[th].pc = "done"

C30_TwoCallsAndNoPendingRequest ==
    /\ \A th \in Slots :
          (/\ requests[th].kind = "chat"
           /\ requests[th].pc = "done"
           /\ requests[th].status = "success"
           /\ HasHistory(th))
              => CallsMade(HistoryOf(th), requests[th].turn, requests[th].model_calls)
    /\ cli.pc = "prompt" /\ cli.status = "success"
          => CallsMade(cli.conversation_history, cli.turn, cli.model_calls)
    /\ \A id \in DOMAIN conversations : IdleConversation(id) => AllAnswered(conversations[id])
    /\ cli.pc = "prompt" => AllAnswered(cli.conversation_history)

\* C31: a /chat with an empty message and a /set_portfolio with an empty or
\* missing portfolio get an error response, as does a /chat on a server
\* without an agent, and the step that turns them away leaves the session,
\* every history and every stored portfolio as they were.
TurnedAway(th) ==
    /\ requests'[th] # requests[th]
    /\ requests'[th].failure \in {"no_message", "no_portfolio", "not_configured"}

C31_RejectedRequestKeepsState ==
    [][ \A th \in Slots :
            TurnedAway(th) =>
                /\ requests'[th].status = "error"
                /\ session' = session
                /\ conversations' = conversations
                /\ portfolios' = portfolios
      ]_vars

\* C31 witness: the first two requests of a client, a /chat without a
\* message and a /set_portfolio without a portfolio, have both been turned
\* away, and there is no session, no history and no portfolio.
C31_Witness ==
    /\ \E th \in Slots : requests[th].failure = "no_message" /\ requests[th].status = "error"
    /\ \E th \in Slots : requests[th].failure = "no_portfolio" /\ requests[th].status = "error"
    /\ session = EmptyDict
    /\ conversations = EmptyDict
    /\ portfolios = EmptyDict

====
